---- MODULE Spec2Model ----
(***************************************************************************)
(* Model of the fillable-PDF form creator: the in-memory store, the        *)
(* upload, field and export routes (server/storage.ts, server/routes.ts),  *)
(* and on the client side: the                                             *)
(* editor page (pages/form-creator.tsx), the upload box                    *)
(* (components/file-upload.tsx), the canvas (components/canvas.tsx and its *)
(* PDF-rendering revision) and the field component with its drag/resize    *)
(* session (the touch + release-commit revision of TextFieldComponent).    *)
(*                                                                         *)
(* Numbers.  The program computes with JavaScript numbers.  Document-space *)
(* lengths are held here as exact integer multiples of 1/Unit of a pixel,  *)
(* where Unit = 210 is divisible by every denominator that division by a   *)
(* zoom scale in {0.25, 0.5, ..., 2} introduces, so every quotient the     *)
(* geometry forms is exact.  Floating-point rounding is not represented.   *)
(* Pointer coordinates (clientX, clientY) are whole screen pixels.         *)
(***************************************************************************)
EXTENDS Integers, Sequences, FiniteSets, TLC

\* ------------------------------------------------------------------ bounds
\* Mutations (PATCH requests) the editor may issue in one run.
MaxCommits == 2
\* Simultaneous touch points.
MaxTouches == 2
\* Documents uploaded to the server in one run.
MaxDocuments == 2
\* Text fields created through the API in one run.
MaxFields == 2

\* ------------------------------------------------------------ number model
Unit == 2 * 3 * 5 * 7
Px(n) == n * Unit
Max(a, b) == IF a >= b THEN a ELSE b
Min(a, b) == IF a <= b THEN a ELSE b

\* zoomIn / zoomOut step, range and the initial (and fit-to-screen) level
ZoomStep == 25
ZoomMin == 25
ZoomMax == 200
ZoomDefault == 100
\* minimum interactive size enforced by the resize handlers
MinWidth == 50
MinHeight == 20
\* page size the upload route records for every PDF, in points
PdfWidth == 612
PdfHeight == 792
\* size the upload route records for an image without metadata
ImageWidth == 800
ImageHeight == 600
\* upload size limit, in megabytes
MaxFileSize == 10

\* ------------------------------------------------------------------ inputs
\* clientX/clientY of the pointer events delivered to the page
\* where a press lands, and where the pointer is seen by later move events
PressPositions == { [x |-> 200, y |-> 200] }
MovePositions == { [x |-> 250, y |-> 250], [x |-> 0, y |-> 0], [x |-> 207, y |-> 190] }
\* the one move used where the geometry is not what is examined
SessionMoves == { [x |-> 250, y |-> 250] }
ResizeDirections == {"se", "e", "s"}
\* what the user types into the sidebar's width / height inputs
TypedValues == {"0", "5", "abc"}

\* the absent field (selectedField = null, find() = undefined)
Null == [id |-> 0]

\* files the user may pick or drop: size in megabytes, width and height of the
\* first page (PDF, in points) or of the bitmap (image metadata), and whether
\* the bytes can be parsed
LetterPdf ==
    [originalName |-> "letter.pdf", mimeType |-> "application/pdf", size |-> 1,
     width |-> Px(612), height |-> Px(792), corrupt |-> FALSE]
A4Pdf ==
    [originalName |-> "a4.pdf", mimeType |-> "application/pdf", size |-> 1,
     width |-> Px(595), height |-> Px(842), corrupt |-> FALSE]
PngImage ==
    [originalName |-> "scan.png", mimeType |-> "image/png", size |-> 2,
     width |-> Px(800), height |-> Px(600), corrupt |-> FALSE]
DamagedPdf ==
    [originalName |-> "damaged.pdf", mimeType |-> "application/pdf", size |-> 1,
     width |-> 0, height |-> 0, corrupt |-> TRUE]
TextFile ==
    [originalName |-> "notes.txt", mimeType |-> "text/plain", size |-> 1,
     width |-> 0, height |-> 0, corrupt |-> FALSE]
HugePdf ==
    [originalName |-> "huge.pdf", mimeType |-> "application/pdf", size |-> 11,
     width |-> Px(612), height |-> Px(792), corrupt |-> FALSE]
Files == {LetterPdf, A4Pdf, PngImage, DamagedPdf, TextFile, HugePdf}

VARIABLES
    \* server: MemStorage, the uploads directory, the ids handed out so far
    \* (textFields holds the values of the Map of text fields in insertion
    \* order, keys holds their keys in the same order)
    documents, textFields, keys, disk, nextId,
    \* the export route's response to the request the server handled last
    exported,
    \* the text-field routes' response to the request the server handled last
    reply,
    \* FileUpload: upload requests in flight, responses in flight back
    uploads, uploadResponses,
    \* Canvas: the rasterized PDF page and the page loads still pending
    pdfImageUrl, isLoadingPdf, rasterizations,
    \* editor page: FormCreator
    selectedDocument, selectedField, zoomLevel, undoStack, queryData,
    \* sidebar: local input state
    sidebarInputs,
    \* one TextFieldComponent per field of queryData
    isDragging, isResizing, resizeDirection, dragStart,
    initialPosition, initialSize, currentPosition, currentSize,
    \* document.body.style.userSelect and .cursor
    bodyStyle,
    \* input devices: the mouse button and the touch points on the screen
    mouse, touches,
    \* HTTP: mutations in flight to the server, responses in flight back
    requests, responses, nextSeq, needsRefetch,
    \* HTTP: create and delete calls in flight, and their responses
    calls

serverVars == <<documents, textFields, keys, disk, nextId>>
uploadVars == <<uploads, uploadResponses>>
canvasVars == <<pdfImageUrl, isLoadingPdf, rasterizations>>
pageVars == <<selectedDocument, selectedField, zoomLevel, undoStack, queryData>>
compVars == <<isDragging, isResizing, resizeDirection, dragStart,
              initialPosition, initialSize, currentPosition, currentSize>>
inputVars == <<mouse, touches>>
netVars == <<requests, responses, nextSeq, needsRefetch, calls>>
vars == <<serverVars, exported, reply, uploadVars, canvasVars, pageVars, sidebarInputs,
          compVars, bodyStyle, inputVars, netVars>>

\* ------------------------------------------------------------ MemStorage
\* C18 mutant: the failure is sent under the headers of the PDF attachment
ExportFailureAsPdf(status, id) ==
    [status |-> status, document |-> id, contentType |-> "application/pdf",
     pageHeight |-> 0, placements |-> <<>>]

\* a response of the export route that carries no PDF
ExportFailure(status, id) ==
    [status |-> status, document |-> id, contentType |-> "application/json",
     pageHeight |-> 0, placements |-> <<>>]
\* the last request was not an export
NoExport == ExportFailure(0, 0)
\* the last request was not one of the text-field routes
NoReply == [status |-> 0, body |-> [id |-> 0]]

\* { ...existing, ...updates }: every key of updates overrides
Merge(existing, updates) ==
    [k \in (DOMAIN existing) \cup (DOMAIN updates) |->
        IF k \in DOMAIN updates THEN updates[k] ELSE existing[k]]

\* Map.get(id) / Array.find(f => f.id === id): the record, or the absent one
Find(fields, id) ==
    IF \E i \in DOMAIN fields : fields[i].id = id
    THEN fields[CHOOSE i \in DOMAIN fields : fields[i].id = id]
    ELSE Null

Has(fields, id) == \E i \in DOMAIN fields : fields[i].id = id

IsByDocument(f, documentId) == f.documentId = documentId

\* Array.from(values()).filter(...): insertion order is kept
getTextFieldsByDocument(fields, documentId) ==
    SelectSeq(fields, LAMBDA f : IsByDocument(f, documentId))

\* the places of a Map of n entries, in iteration order
Places(n) == [i \in 1..n |-> i]

\* the values at the given places of the iteration order
At(values, places) == [j \in 1..Len(places) |-> values[places[j]]]

\* MemStorage.deleteTextField
\* (Map.delete(id): what is left of the values, or of the keys themselves)
deleteTextField(values, ks, id) ==
    At(values, SelectSeq(Places(Len(ks)), LAMBDA i : ks[i] # id))

\* C15 mutant: the lookup finds an entry for every id
HasKeyAlways(ks, id) == TRUE

\* Map.has(id): ks are the keys of the Map
HasKey(ks, id) == \E i \in DOMAIN ks : ks[i] = id

\* Map.get(id): the value under the key, or the absent one
Get(fields, ks, id) ==
    IF \E i \in DOMAIN ks : ks[i] = id
    THEN fields[CHOOSE i \in DOMAIN ks : ks[i] = id]
    ELSE Null

\* C13 mutant: the updated entry moves to the end of the iteration order
updateTextFieldReinserted(fields, ks, id, updates) ==
    Append(deleteTextField(fields, ks, id), Merge(Get(fields, ks, id), updates))

\* C27 mutant: the update written to every entry, not to the one under the id
updateTextFieldEveryEntry(fields, ks, id, updates) ==
    [i \in DOMAIN fields |-> Merge(fields[i], updates)]

\* MemStorage.updateTextField for a key the Map has: Map.set on an existing
\* key keeps the key and the entry's place in the iteration order
updateTextField(fields, ks, id, updates) ==
    [i \in DOMAIN fields |->
        IF ks[i] = id THEN Merge(fields[i], updates) ELSE fields[i]]

\* ------------------------------------------------------- Geometry of a move
\* (clientX - dragStart.x) / scale with scale = zoomLevel / 100, in 1/Unit px
ScreenToDoc(delta, zoom) == (delta * 100 * Unit) \div zoom

\* C1 mutant: the displacement taken in screen pixels, not divided by the scale
DragCandidateUnscaled(init, start, p, zoom) ==
    [x |-> Max(0, init.x + (p.x - start.x) * Unit),
     y |-> Max(0, init.y + (p.y - start.y) * Unit)]

\* handleMouseMove / handleTouchMove, dragging branch
DragCandidate(init, start, p, zoom) ==
    [x |-> Max(0, init.x + ScreenToDoc(p.x - start.x, zoom)),
     y |-> Max(0, init.y + ScreenToDoc(p.y - start.y, zoom))]

\* C3 mutant: every direction drives both dimensions
ResizeCandidateBothAxes(init, start, p, zoom, dir) ==
    [width |-> Max(Px(MinWidth), init.width + ScreenToDoc(p.x - start.x, zoom)),
     height |-> Max(Px(MinHeight), init.height + ScreenToDoc(p.y - start.y, zoom))]

\* handleMouseMove / handleTouchMove, resizing branch
ResizeCandidate(init, start, p, zoom, dir) ==
    [width |-> IF dir \in {"se", "e"}
               THEN Max(Px(MinWidth), init.width + ScreenToDoc(p.x - start.x, zoom))
               ELSE init.width,
     height |-> IF dir \in {"se", "s"}
                THEN Max(Px(MinHeight), init.height + ScreenToDoc(p.y - start.y, zoom))
                ELSE init.height]

\* ------------------------------------------------------ TextFieldComponent
Mounted == DOMAIN isDragging
Active(f) == isDragging[f] \/ isResizing[f]
NumActive == Cardinality({f \in Mounted : isDragging[f]})
             + Cardinality({f \in Mounted : isResizing[f]})
IsSelected(f) == selectedField.id = f
PosOf(field) == [x |-> field.x, y |-> field.y]
SizeOf(field) == [width |-> field.width, height |-> field.height]

\* the listener effect of a component and its cleanup
DefaultStyle == [userSelect |-> "", cursor |-> ""]
GestureStyle(dragging, direction) ==
    [userSelect |-> "none",
     cursor |-> IF dragging THEN "move"
                ELSE IF direction = "se" THEN "se-resize"
                ELSE IF direction = "e" THEN "e-resize" ELSE "s-resize"]

\* FormCreator or Canvas renders in this step: selection, zoom, undo stack,
\* field list, document, page image, or a mutation issued. Every component
\* then gets new onUpdatePosition / onUpdateSize callbacks.
Rendered ==
    \/ pageVars' # pageVars
    \/ canvasVars' # canvasVars
    \/ nextSeq' # nextSeq
    \/ calls' # calls

\* the components whose listener effect runs again after this step: a
\* dependency changed (own state, scale, the callbacks), or the component
\* unmounts
Rerun ==
    IF Rendered THEN Mounted \cup DOMAIN isDragging'
    ELSE {f \in Mounted :
            \/ isDragging'[f] # isDragging[f]
            \/ isResizing'[f] # isResizing[f]
            \/ resizeDirection'[f] # resizeDirection[f]
            \/ dragStart'[f] # dragStart[f]
            \/ initialPosition'[f] # initialPosition[f]
            \/ initialSize'[f] # initialSize[f]
            \/ currentPosition'[f] # currentPosition[f]
            \/ currentSize'[f] # currentSize[f]}

\* React runs the cleanups of all these effects, each clearing both
\* overrides, then the effects in render order, each setting both overrides
\* when its component is dragging or resizing
Effects ==
    LET setting == {f \in Rerun \cap DOMAIN isDragging' :
                      isDragging'[f] \/ isResizing'[f]}
        last == CHOOSE f \in setting : \A g \in setting : g <= f
    IN  bodyStyle' = IF Rerun = {} THEN bodyStyle
                     ELSE IF setting = {} THEN DefaultStyle
                     ELSE GestureStyle(isDragging'[last], resizeDirection'[last])

\* a gesture may start only while the commit it will issue is within the bound
MayIssue == nextSeq + NumActive < MaxCommits

\* the move handlers of one component: which branch a move event takes
\* (single: a mouse event, or a touch event with e.touches.length === 1)
\* C22 mutant: the drag branch without the test of e.touches.length
TakesDragAnyTouches(f, single) == isDragging[f]
TakesDrag(f, single) == isDragging[f] /\ single
TakesResize(f, single) ==
    ~isDragging[f] /\ isResizing[f] /\ resizeDirection[f] # "null" /\ single

\* handleMouseMove and handleTouchMove of every component whose listeners are
\* registered
Move(p, single) ==
    /\ currentPosition' =
         [f \in Mounted |->
            IF TakesDrag(f, single)
            THEN DragCandidate(initialPosition[f], dragStart[f], p, zoomLevel)
            ELSE currentPosition[f]]
    /\ currentSize' =
         [f \in Mounted |->
            IF TakesResize(f, single)
            THEN ResizeCandidate(initialSize[f], dragStart[f], p, zoomLevel,
                                 resizeDirection[f])
            ELSE currentSize[f]]
    /\ UNCHANGED <<isDragging, isResizing, resizeDirection, dragStart,
                   initialPosition, initialSize>>

\* handleEnd of one component: which branch a release takes
EndsDrag(f) == isDragging[f]
EndsResize(f) == ~isDragging[f] /\ isResizing[f]
Committers == {f \in Mounted : EndsDrag(f) \/ EndsResize(f)}

\* onUpdatePosition(currentPosition) / onUpdateSize(currentSize) -> mutate({id,
\* updates, previousData: textFields.find(...)})
CommitOf(f, seq) ==
    [seq |-> seq, id |-> f,
     updates |-> IF EndsDrag(f) THEN currentPosition[f] ELSE currentSize[f],
     previousData |-> Find(queryData, f)]

Rank(f, S) == Cardinality({g \in S : g < f})

\* the sync effect: live values follow the field prop while no gesture is active
SyncedPosition(f, dragging, resizing, fields) ==
    IF ~dragging /\ ~resizing /\ Has(fields, f)
    THEN PosOf(Find(fields, f)) ELSE currentPosition[f]
SyncedSize(f, dragging, resizing, fields) ==
    IF ~dragging /\ ~resizing /\ Has(fields, f)
    THEN SizeOf(Find(fields, f)) ELSE currentSize[f]

\* document mouseup / touchend: handleEnd of every component with listeners,
\* then the sync effect that the change of isDragging / isResizing triggers
End ==
    /\ isDragging' = [f \in Mounted |-> FALSE]
    /\ isResizing' = [f \in Mounted |-> IF EndsResize(f) THEN FALSE ELSE isResizing[f]]
    /\ resizeDirection' =
         [f \in Mounted |-> IF EndsResize(f) THEN "null" ELSE resizeDirection[f]]
    /\ requests' = requests \cup {CommitOf(f, nextSeq + Rank(f, Committers)) : f \in Committers}
    /\ nextSeq' = nextSeq + Cardinality(Committers)
    /\ currentPosition' =
         [f \in Mounted |->
            IF f \in Committers
            THEN SyncedPosition(f, FALSE, isResizing'[f], queryData)
            ELSE currentPosition[f]]
    /\ currentSize' =
         [f \in Mounted |->
            IF f \in Committers
            THEN SyncedSize(f, FALSE, isResizing'[f], queryData)
            ELSE currentSize[f]]
    /\ UNCHANGED <<dragStart, initialPosition, initialSize>>


\* ------------------------------------------------------------ DOM events
NoPoint == [x |-> 0, y |-> 0]
Target(kind, f) == [kind |-> kind, f |-> f]

\* Sidebar's effect on [selectedField]: the inputs show the selection's copy
SidebarOf(sel) ==
    IF sel.id = 0
    THEN [name |-> "", width |-> [text |-> ""], height |-> [text |-> ""]]
    ELSE [name |-> sel.name, width |-> [num |-> sel.width],
          height |-> [num |-> sel.height]]

\* setSelectedField(field) and the sidebar effect it triggers
Select(field) ==
    /\ selectedField' = field
    /\ sidebarInputs' = IF field = selectedField THEN sidebarInputs
                        ELSE SidebarOf(field)

\* handleMouseDown: select an unselected field, start dragging a selected one
StartDragOrSelect(f, p) ==
    IF ~IsSelected(f)
    THEN /\ Select(Find(queryData, f))
         /\ UNCHANGED compVars
    ELSE /\ MayIssue
         /\ isDragging' = [isDragging EXCEPT ![f] = TRUE]
         /\ dragStart' = [dragStart EXCEPT ![f] = p]
         /\ initialPosition' = [initialPosition EXCEPT ![f] = currentPosition[f]]
         /\ UNCHANGED <<selectedField, sidebarInputs, isResizing, resizeDirection,
                        initialSize, currentPosition, currentSize>>

\* C21 mutant: the gesture start keeps the pointer of the gesture before
StartResizeStalePointer(f, dir, p) ==
    /\ MayIssue
    /\ isResizing' = [isResizing EXCEPT ![f] = TRUE]
    /\ resizeDirection' = [resizeDirection EXCEPT ![f] = dir]
    /\ initialSize' = [initialSize EXCEPT ![f] = currentSize[f]]
    /\ UNCHANGED <<selectedField, sidebarInputs, isDragging, initialPosition,
                   currentPosition, currentSize, dragStart>>

\* handleResizeMouseDown / handleResizeTouchStart (single touch)
StartResize(f, dir, p) ==
    /\ MayIssue
    /\ isResizing' = [isResizing EXCEPT ![f] = TRUE]
    /\ resizeDirection' = [resizeDirection EXCEPT ![f] = dir]
    /\ dragStart' = [dragStart EXCEPT ![f] = p]
    /\ initialSize' = [initialSize EXCEPT ![f] = currentSize[f]]
    /\ UNCHANGED <<selectedField, sidebarInputs, isDragging, initialPosition,
                   currentPosition, currentSize>>

\* mousedown on the body of field f
MouseDownField(f, p) ==
    /\ ~mouse.down
    /\ f \in Mounted
    /\ StartDragOrSelect(f, p)
    /\ mouse' = [down |-> TRUE, target |-> Target("field", f)]
    /\ UNCHANGED <<serverVars, selectedDocument, zoomLevel, undoStack, queryData,
                   touches, netVars>>
    /\ UNCHANGED <<exported, reply, uploadVars, canvasVars>>
    /\ Effects

\* mousedown on a resize handle of f (rendered only while f is selected)
MouseDownHandle(f, dir, p) ==
    /\ ~mouse.down
    /\ f \in Mounted
    /\ IsSelected(f)
    /\ StartResize(f, dir, p)
    /\ mouse' = [down |-> TRUE, target |-> Target("handle", f)]
    /\ UNCHANGED <<serverVars, selectedDocument, zoomLevel, undoStack, queryData,
                   touches, netVars>>
    /\ UNCHANGED <<exported, reply, uploadVars, canvasVars>>
    /\ Effects

\* mousedown on the canvas background or on a field's entry in the sidebar list
MouseDownElsewhere(kind, f) ==
    /\ ~mouse.down
    /\ \/ kind = "canvas" /\ f = 0
       \/ kind = "sidebarItem" /\ Has(queryData, f)
    /\ mouse' = [down |-> TRUE, target |-> Target(kind, f)]
    /\ UNCHANGED <<serverVars, pageVars, sidebarInputs, compVars, touches, netVars>>
    /\ UNCHANGED <<exported, reply, uploadVars, canvasVars>>
    /\ Effects

\* document mousemove
MouseMove(p) ==
    /\ \E f \in Mounted : Active(f)
    /\ Move(p, TRUE)
    /\ UNCHANGED <<serverVars, pageVars, sidebarInputs, mouse, touches, netVars>>
    /\ UNCHANGED <<exported, reply, uploadVars, canvasVars>>
    /\ Effects

\* the element the click that follows a mouseup is dispatched to: the pressed
\* element when the pointer is released on it, the canvas when a press inside the
\* canvas is released over its background (nearest common ancestor), else none
ClickTarget(released) ==
    IF released = "same" THEN mouse.target
    ELSE IF released = "canvas" /\ mouse.target.kind \in {"field", "handle", "canvas"}
         THEN Target("canvas", 0)
         ELSE Target("none", 0)

\* C23 mutant: handleCanvasClick without the test e.target === e.currentTarget
ClickBubbled(target) ==
    IF target.kind \in {"canvas", "field", "handle"} THEN Select(Null)
    ELSE IF target.kind = "sidebarItem" /\ Has(queryData, target.f)
         THEN Select(Find(queryData, target.f))
         ELSE UNCHANGED <<selectedField, sidebarInputs>>

\* handleCanvasClick (e.target === e.currentTarget) and the sidebar list's onClick
Click(target) ==
    IF target.kind = "canvas" THEN Select(Null)
    ELSE IF target.kind = "sidebarItem" /\ Has(queryData, target.f)
         THEN Select(Find(queryData, target.f))
         ELSE UNCHANGED <<selectedField, sidebarInputs>>

\* document mouseup, then the click event
MouseUp(released) ==
    /\ mouse.down
    /\ End
    /\ Click(ClickTarget(released))
    /\ mouse' = [down |-> FALSE, target |-> Target("none", 0)]
    /\ UNCHANGED <<serverVars, selectedDocument, zoomLevel, undoStack, queryData,
                   touches, responses, needsRefetch, calls>>
    /\ UNCHANGED <<exported, reply, uploadVars, canvasVars>>
    /\ Effects

\* handleTouchStart on the body of field f; e.touches.length = touches + 1
TouchStartField(f, p) ==
    /\ touches < MaxTouches
    /\ f \in Mounted
    /\ IF ~IsSelected(f) \/ touches + 1 = 1
       THEN StartDragOrSelect(f, p)
       ELSE UNCHANGED <<selectedField, sidebarInputs, compVars>>
    /\ touches' = touches + 1
    /\ UNCHANGED <<serverVars, selectedDocument, zoomLevel, undoStack, queryData,
                   mouse, netVars>>
    /\ UNCHANGED <<exported, reply, uploadVars, canvasVars>>
    /\ Effects

\* handleResizeTouchStart on a handle of f
TouchStartHandle(f, dir, p) ==
    /\ touches < MaxTouches
    /\ f \in Mounted
    /\ IsSelected(f)
    /\ IF touches + 1 = 1
       THEN StartResize(f, dir, p)
       ELSE UNCHANGED <<selectedField, sidebarInputs, compVars>>
    /\ touches' = touches + 1
    /\ UNCHANGED <<serverVars, selectedDocument, zoomLevel, undoStack, queryData,
                   mouse, netVars>>
    /\ UNCHANGED <<exported, reply, uploadVars, canvasVars>>
    /\ Effects

\* document touchmove; e.touches.length = touches
TouchMove(p) ==
    /\ touches >= 1
    /\ \E f \in Mounted : Active(f)
    /\ Move(p, touches = 1)
    /\ UNCHANGED <<serverVars, pageVars, sidebarInputs, mouse, touches, netVars>>
    /\ UNCHANGED <<exported, reply, uploadVars, canvasVars>>
    /\ Effects

\* document touchend: one touch point lifts
TouchEnd ==
    /\ touches >= 1
    /\ End
    /\ touches' = touches - 1
    /\ UNCHANGED <<serverVars, pageVars, sidebarInputs, mouse, responses, needsRefetch, calls>>
    /\ UNCHANGED <<exported, reply, uploadVars, canvasVars>>
    /\ Effects


\* ------------------------------------------------------------ editor page
\* zoomIn / zoomOut / fitToScreen (toolbar buttons)
ZoomIn ==
    /\ zoomLevel' = Min(zoomLevel + ZoomStep, ZoomMax)
    /\ UNCHANGED <<serverVars, selectedDocument, selectedField, undoStack, queryData,
                   sidebarInputs, compVars, mouse, touches, netVars>>
    /\ UNCHANGED <<exported, reply, uploadVars, canvasVars>>
    /\ Effects

\* zoomOut without the lower clamp
ZoomOutUnclamped ==
    /\ zoomLevel' = zoomLevel - ZoomStep
    /\ UNCHANGED <<serverVars, selectedDocument, selectedField, undoStack, queryData,
                   sidebarInputs, compVars, mouse, touches, netVars>>
    /\ UNCHANGED <<exported, reply, uploadVars, canvasVars>>
    /\ Effects

ZoomOut ==
    /\ zoomLevel' = Max(zoomLevel - ZoomStep, ZoomMin)
    /\ UNCHANGED <<serverVars, selectedDocument, selectedField, undoStack, queryData,
                   sidebarInputs, compVars, mouse, touches, netVars>>
    /\ UNCHANGED <<exported, reply, uploadVars, canvasVars>>
    /\ Effects

FitToScreen ==
    /\ zoomLevel' = ZoomDefault
    /\ UNCHANGED <<serverVars, selectedDocument, selectedField, undoStack, queryData,
                   sidebarInputs, compVars, mouse, touches, netVars>>
    /\ UNCHANGED <<exported, reply, uploadVars, canvasVars>>
    /\ Effects

\* parseFloat of the typed text
IsNaNText(t) == t \notin {"0", "5"}
ParseFloat(t) == IF t = "5" THEN Px(5) ELSE 0

\* updateFieldMutation.mutate({ id, updates, previousData })
Mutation(seq, id, updates) ==
    [seq |-> seq, id |-> id, updates |-> updates, previousData |-> Find(queryData, id)]

\* Sidebar.handleWidthChange / handleHeightChange -> updateFieldProperties
SidebarEdit(property, value) ==
    /\ selectedDocument.id # 0
    /\ selectedField.id # 0
    /\ sidebarInputs' = [sidebarInputs EXCEPT ![property] = [text |-> value]]
    /\ IF ~IsNaNText(value) /\ ParseFloat(value) > 0
       THEN /\ MayIssue
            /\ requests' = requests \cup
                 {Mutation(nextSeq, selectedField.id,
                           [k \in {property} |-> ParseFloat(value)])}
            /\ nextSeq' = nextSeq + 1
       ELSE UNCHANGED <<requests, nextSeq>>
    /\ UNCHANGED <<serverVars, pageVars, compVars, mouse, touches, responses,
                   needsRefetch, calls>>
    /\ UNCHANGED <<exported, reply, uploadVars, canvasVars>>
    /\ Effects

\* ---------------------------------- the mouse-only TextFieldComponent
\* handleMouseDown of the mouse-only component: onSelect(), then the drag
\* starts whether the field was selected or not; the gesture start is the
\* field prop's position
MouseOnlyDown(f, p) ==
    /\ ~mouse.down
    /\ f \in Mounted
    /\ Select(Find(queryData, f))
    /\ isDragging' = [isDragging EXCEPT ![f] = TRUE]
    /\ dragStart' = [dragStart EXCEPT ![f] = p]
    /\ initialPosition' = [initialPosition EXCEPT ![f] = PosOf(Find(queryData, f))]
    /\ mouse' = [down |-> TRUE, target |-> Target("field", f)]
    /\ UNCHANGED <<isResizing, resizeDirection, initialSize, currentPosition,
                   currentSize>>
    /\ UNCHANGED <<serverVars, selectedDocument, zoomLevel, undoStack, queryData,
                   touches, netVars>>
    /\ UNCHANGED <<exported, reply, uploadVars, canvasVars>>
    /\ Effects

\* handleMouseDown of the continuous-commit component: select an unselected
\* field, start dragging a selected one from the field prop's position
ContinuousDown(f, p) ==
    /\ ~mouse.down
    /\ f \in Mounted
    /\ IF ~IsSelected(f)
       THEN /\ Select(Find(queryData, f))
            /\ UNCHANGED compVars
       ELSE /\ isDragging' = [isDragging EXCEPT ![f] = TRUE]
            /\ dragStart' = [dragStart EXCEPT ![f] = p]
            /\ initialPosition' =
                 [initialPosition EXCEPT ![f] = PosOf(Find(queryData, f))]
            /\ UNCHANGED <<selectedField, sidebarInputs, isResizing,
                           resizeDirection, initialSize, currentPosition,
                           currentSize>>
    /\ mouse' = [down |-> TRUE, target |-> Target("field", f)]
    /\ UNCHANGED <<serverVars, selectedDocument, zoomLevel, undoStack, queryData,
                   touches, netVars>>
    /\ UNCHANGED <<exported, reply, uploadVars, canvasVars>>
    /\ Effects

\* handleMouseMove of the mouse-only component while dragging:
\* onUpdatePosition(newX, newY) on every move, one PATCH each; the
\* continuous-commit component has the same handler (sidebar.tsx 492-499)
MouseOnlyMove(f, p) ==
    /\ f \in Mounted
    /\ isDragging[f]
    /\ nextSeq < MaxCommits
    /\ requests' = requests \cup
         {Mutation(nextSeq, f,
                   DragCandidate(initialPosition[f], dragStart[f], p, zoomLevel))}
    /\ nextSeq' = nextSeq + 1
    /\ UNCHANGED <<serverVars, pageVars, sidebarInputs, compVars, inputVars,
                   responses, needsRefetch, calls>>
    /\ UNCHANGED <<exported, reply, uploadVars, canvasVars>>
    /\ Effects

\* handleMouseUp of the mouse-only component, then the click event; the
\* continuous-commit component has the same handler (sidebar.tsx 535-539)
MouseOnlyUp(released) ==
    /\ mouse.down
    /\ isDragging' = [f \in Mounted |-> FALSE]
    /\ isResizing' = [f \in Mounted |-> FALSE]
    /\ resizeDirection' = [f \in Mounted |-> "null"]
    /\ Click(ClickTarget(released))
    /\ mouse' = [down |-> FALSE, target |-> Target("none", 0)]
    /\ UNCHANGED <<dragStart, initialPosition, initialSize, currentPosition,
                   currentSize>>
    /\ UNCHANGED <<serverVars, selectedDocument, zoomLevel, undoStack, queryData,
                   touches, netVars>>
    /\ UNCHANGED <<exported, reply, uploadVars, canvasVars>>
    /\ Effects

\* ------------------------------------------------------------------ server
\* PATCH /api/text-fields/:id : storage.updateTextField(id, req.body)
HandlePatch(req) ==
    /\ UNCHANGED bodyStyle
    /\ req \in requests
    /\ requests' = requests \ {req}
    /\ keys' = keys
    /\ IF HasKey(keys, req.id)
       THEN /\ textFields' = updateTextField(textFields, keys, req.id, req.updates)
            /\ responses' = responses \cup
                 {[seq |-> req.seq, status |-> 200,
                   body |-> Get(textFields', keys, req.id),
                   updates |-> req.updates, previousData |-> req.previousData]}
       ELSE /\ UNCHANGED textFields
            /\ responses' = responses \cup
                 {[seq |-> req.seq, status |-> 404, body |-> Null,
                   updates |-> req.updates, previousData |-> req.previousData]}
    /\ exported' = NoExport
    /\ reply' = NoReply
    /\ UNCHANGED <<documents, disk, nextId, pageVars, sidebarInputs, compVars,
                   inputVars, nextSeq, needsRefetch, calls>>
    /\ UNCHANGED <<uploadVars, canvasVars>>

\* updateFieldMutation.onSuccess: undo entry, invalidateQueries
ReceiveResponse(resp) ==
    /\ resp \in responses
    /\ responses' = responses \ {resp}
    /\ IF resp.status = 200
       THEN /\ undoStack' =
                 IF resp.previousData.id # 0
                 THEN Append(undoStack,
                             [type |-> "update", fieldId |-> resp.body.id,
                              data |-> resp.updates,
                              previousData |-> resp.previousData])
                 ELSE undoStack
            /\ needsRefetch' = TRUE
       ELSE UNCHANGED <<undoStack, needsRefetch>>
    /\ UNCHANGED <<serverVars, selectedDocument, selectedField, zoomLevel, queryData,
                   sidebarInputs, compVars, inputVars, requests, nextSeq, calls>>
    /\ UNCHANGED <<exported, reply, uploadVars, canvasVars>>
    /\ Effects

\* a component mounts with the live values of its field prop
MountedIds(fields) == {fields[i].id : i \in DOMAIN fields}
Remount(old, fields, fresh) ==
    [f \in MountedIds(fields) |-> IF f \in DOMAIN old THEN old[f] ELSE fresh]

\* the text-fields query refetches: GET /api/documents/:documentId/text-fields,
\* components mount / unmount by key, the sync effect follows the new props
Refetch ==
    /\ needsRefetch
    /\ selectedDocument.id # 0
    /\ needsRefetch' = FALSE
    /\ queryData' = getTextFieldsByDocument(textFields, selectedDocument.id)
    /\ isDragging' = Remount(isDragging, queryData', FALSE)
    /\ isResizing' = Remount(isResizing, queryData', FALSE)
    /\ resizeDirection' = Remount(resizeDirection, queryData', "null")
    /\ dragStart' = Remount(dragStart, queryData', NoPoint)
    /\ initialPosition' = Remount(initialPosition, queryData', NoPoint)
    /\ initialSize' = Remount(initialSize, queryData', [width |-> 0, height |-> 0])
    /\ currentPosition' =
         [f \in MountedIds(queryData') |->
            IF f \in Mounted /\ Active(f) THEN currentPosition[f]
            ELSE PosOf(Find(queryData', f))]
    /\ currentSize' =
         [f \in MountedIds(queryData') |->
            IF f \in Mounted /\ Active(f) THEN currentSize[f]
            ELSE SizeOf(Find(queryData', f))]
    /\ UNCHANGED <<serverVars, selectedDocument, selectedField, zoomLevel, undoStack,
                   sidebarInputs, inputVars, requests, responses, nextSeq,
                   calls>>
    /\ UNCHANGED <<exported, reply, uploadVars, canvasVars>>
    /\ Effects

\* ------------------------------------------------------------ documents
AllowedTypes == {"application/pdf", "image/png", "image/jpeg"}
IsPdf(d) == d.mimeType = "application/pdf"

\* x || fallback
OrElse(x, fallback) == IF x # 0 THEN x ELSE fallback

\* POST /api/documents: the documentData the route builds for an uploaded file
\* stored under uploads/<filename>
DocumentData(file, filename) ==
    [filename |-> filename, originalName |-> file.originalName,
     mimeType |-> file.mimeType, size |-> file.size,
     width |-> IF IsPdf(file) THEN Px(PdfWidth)
               ELSE OrElse(file.width, Px(ImageWidth)),
     height |-> IF IsPdf(file) THEN Px(PdfHeight)
                ELSE OrElse(file.height, Px(ImageHeight))]

\* MemStorage.createDocument
createDocument(docs, id, insertDocument) ==
    Append(docs, Merge(insertDocument, [id |-> id]))

\* multer: the size limit and the file filter
Accepted(file) == file.size <= MaxFileSize /\ file.mimeType \in AllowedTypes

\* what the upload route does to the server
UploadRoute(file) ==
    /\ disk' = Append(disk, file)
    /\ documents' = createDocument(documents, nextId.document,
                                   DocumentData(file, Len(disk) + 1))
    /\ nextId' = [nextId EXCEPT !.document = @ + 1]
    /\ UNCHANGED <<textFields, keys>>

Started == nextId.document - 1 + Cardinality(uploads)

\* FileUpload.handleFileSelect -> uploadMutation.mutate(file)
UploadFile(file) ==
    /\ UNCHANGED bodyStyle
    /\ selectedDocument.id = 0
    /\ Started < MaxDocuments
    /\ IF file.size > MaxFileSize \/ file.mimeType \notin AllowedTypes
       THEN UNCHANGED uploads
       ELSE uploads' = uploads \cup {[n |-> Started, file |-> file]}
    /\ UNCHANGED <<serverVars, exported, reply, uploadResponses, canvasVars, pageVars,
                   sidebarInputs, compVars, inputVars, netVars>>

\* POST /api/documents for an upload of the page
HandleUpload(u) ==
    /\ UNCHANGED bodyStyle
    /\ u \in uploads
    /\ uploads' = uploads \ {u}
    /\ IF Accepted(u.file)
       THEN /\ UploadRoute(u.file)
            /\ uploadResponses' = uploadResponses \cup {Find(documents', nextId.document)}
       ELSE UNCHANGED <<serverVars, uploadResponses>>
    /\ exported' = NoExport
    /\ reply' = NoReply
    /\ UNCHANGED <<canvasVars, pageVars, sidebarInputs, compVars, inputVars,
                   netVars>>

\* Canvas's effect on [document.id, document.mimeType]
CanvasEffect(document) ==
    IF IsPdf(document)
    THEN /\ isLoadingPdf' = TRUE
         /\ rasterizations' = rasterizations \cup {document.id}
         /\ UNCHANGED pdfImageUrl
    ELSE /\ pdfImageUrl' = 0
         /\ isLoadingPdf' = FALSE
         /\ UNCHANGED rasterizations

\* Canvas.getBackgroundStyle: the backgroundImage of the document preview,
\* "none", the rasterized page of a document, or the URL of the document's file
getBackgroundStyle(document, loading, imageUrl) ==
    IF IsPdf(document) /\ loading THEN [backgroundImage |-> "none", of |-> 0]
    ELSE IF IsPdf(document) /\ imageUrl # 0
         THEN [backgroundImage |-> "page", of |-> imageUrl]
         ELSE [backgroundImage |-> "file", of |-> document.id]

\* uploadMutation.onSuccess -> setSelectedDocument(document): the canvas shows the
\* document, the text-fields query switches to the document's key (no data yet)
ReceiveUpload(document) ==
    /\ document \in uploadResponses
    /\ uploadResponses' = uploadResponses \ {document}
    /\ selectedDocument' = document
    /\ CanvasEffect(document)
    /\ queryData' = <<>>
    /\ needsRefetch' = TRUE
    /\ isDragging' = <<>>
    /\ isResizing' = <<>>
    /\ resizeDirection' = <<>>
    /\ dragStart' = <<>>
    /\ initialPosition' = <<>>
    /\ initialSize' = <<>>
    /\ currentPosition' = <<>>
    /\ currentSize' = <<>>
    /\ UNCHANGED <<serverVars, exported, reply, uploads, selectedField, zoomLevel, undoStack,
                   sidebarInputs, inputVars, requests, responses, nextSeq,
                   calls>>
    /\ Effects

\* the page load of document d resolves: setPdfImageUrl, setIsLoadingPdf(false)
RasterResolve(d) ==
    /\ d \in rasterizations
    /\ rasterizations' = rasterizations \ {d}
    /\ pdfImageUrl' = d
    /\ isLoadingPdf' = FALSE
    /\ UNCHANGED <<serverVars, exported, reply, uploadVars, pageVars, sidebarInputs,
                   compVars, inputVars, netVars>>
    /\ Effects

\* the page load of document d rejects: setIsLoadingPdf(false)
RasterReject(d) ==
    /\ d \in rasterizations
    /\ rasterizations' = rasterizations \ {d}
    /\ isLoadingPdf' = FALSE
    /\ UNCHANGED <<serverVars, exported, reply, uploadVars, pdfImageUrl, pageVars,
                   sidebarInputs, compVars, inputVars, netVars>>
    /\ Effects

\* ------------------------------------------------------------------ export
\* C4 mutant: the field's height left out of the flip
YCoordinateNoHeight(pageHeight, field) == pageHeight - field.y

\* C5 mutant: no flip, the top-left y is passed through
YCoordinateTopDown(pageHeight, field) == field.y

\* const yCoordinate = pageHeight - field.y - field.height
YCoordinate(pageHeight, field) == pageHeight - field.y - field.height

\* embedFont('Helvetica') and setFontAndSize in their try block: the font of
\* the form field, or none set when the embedding threw
EmbeddedFont(field, failing) ==
    IF field.id \in failing THEN "none" ELSE "Helvetica"

\* textField.addToPage(firstPage, {x, y, width, height}), then the font
Placement(pageHeight, field, failing) ==
    [name |-> field.name, x |-> field.x, y |-> YCoordinate(pageHeight, field),
     width |-> field.width, height |-> field.height,
     font |-> EmbeddedFont(field, failing)]

\* firstPage.getSize().height: the loaded PDF's first page, or the page created
\* for an image with [document.width || 612, document.height || 792]
PageHeight(document, file) ==
    IF IsPdf(document) THEN file.height ELSE OrElse(document.height, Px(PdfHeight))

\* form.createTextField(name) throws when the form already has a field of
\* that name
NamesDistinct(fields) ==
    \A i, k \in DOMAIN fields : fields[i].name = fields[k].name => i = k

\* the ids of a list of records
IdsOf(records) == {records[i].id : i \in DOMAIN records}

\* C17 mutant: a font that cannot be embedded fails the whole export
ExportResponseUncaught(docs, fields, files, id, failing) ==
    IF ~Has(docs, id) THEN ExportFailure(404, id)
    ELSE LET document == Find(docs, id)
             file == files[document.filename]
             ofDocument == getTextFieldsByDocument(fields, id)
             pageHeight == PageHeight(document, file)
         IN  IF file.corrupt \/ ~NamesDistinct(ofDocument) \/ failing # {}
             THEN ExportFailure(500, id)
             ELSE [status |-> 200, document |-> id,
                   contentType |-> "application/pdf", pageHeight |-> pageHeight,
                   placements |-> [i \in DOMAIN ofDocument |->
                                      Placement(pageHeight, ofDocument[i], failing)]]

\* POST /api/documents/:id/export; failing holds the ids of the fields for
\* which pdfDoc.embedFont throws
ExportResponse(docs, fields, files, id, failing) ==
    IF ~Has(docs, id) THEN ExportFailure(404, id)
    ELSE LET document == Find(docs, id)
             file == files[document.filename]
             ofDocument == getTextFieldsByDocument(fields, id)
             pageHeight == PageHeight(document, file)
         IN  IF file.corrupt \/ ~NamesDistinct(ofDocument)
             THEN ExportFailure(500, id)
             ELSE [status |-> 200, document |-> id,
                   contentType |-> "application/pdf", pageHeight |-> pageHeight,
                   placements |-> [i \in DOMAIN ofDocument |->
                                      Placement(pageHeight, ofDocument[i], failing)]]

\* --------------------------------------------------------- direct API calls
\* MemStorage.createTextField
createTextField(fields, id, insertTextField) ==
    Append(fields,
           [id |-> id, documentId |-> insertTextField.documentId,
            name |-> insertTextField.name,
            x |-> insertTextField.x, y |-> insertTextField.y,
            width |-> insertTextField.width, height |-> insertTextField.height,
            required |-> IF "required" \in DOMAIN insertTextField
                         THEN insertTextField.required ELSE "null",
            fontFamily |-> IF "fontFamily" \in DOMAIN insertTextField
                           THEN insertTextField.fontFamily ELSE "undefined"])

\* C12 mutant: the document goes, its text fields stay
deleteDocumentOnly(docs, fields, ks, id) ==
    [documents |-> SelectSeq(docs, LAMBDA d : d.id # id), textFields |-> fields,
     keys |-> ks]

\* MemStorage.deleteDocument: the two maps after the call
deleteDocument(docs, fields, ks, id) ==
    [documents |-> SelectSeq(docs, LAMBDA d : d.id # id),
     textFields |-> SelectSeq(fields, LAMBDA f : f.documentId # id),
     keys |-> At(ks, SelectSeq(Places(Len(ks)),
                               LAMBDA i : fields[i].documentId # id))]


\* the keys of insertTextFieldSchema: the table's columns without id
InsertKeys ==
    {"documentId", "name", "x", "y", "width", "height", "required", "fontFamily"}
\* the columns with neither a default nor null allowed
InsertRequired == {"documentId", "name", "x", "y", "width", "height"}
\* insertTextFieldSchema.parse succeeds
ValidInsert(body) == InsertRequired \subseteq DOMAIN body
\* insertTextFieldSchema.parse: keys the schema does not know are stripped, and
\* no default is filled in
ParseInsert(body) == [k \in (DOMAIN body) \cap InsertKeys |-> body[k]]

\* request bodies of POST /api/text-fields: the editor's add-field body, and a
\* body of another client
CreateBodies(documentId) ==
    { [documentId |-> documentId, name |-> "Field 1", x |-> Px(100), y |-> Px(100),
       width |-> Px(150), height |-> Px(35), required |-> FALSE, font |-> "Arial"],
      [documentId |-> documentId, name |-> "Field 2", x |-> Px(20), y |-> Px(700),
       width |-> Px(200), height |-> Px(44) + Unit \div 3] }

\* request bodies of PATCH /api/text-fields/:id
PatchBodies ==
    { [x |-> Px(0), y |-> Px(0), width |-> Px(5), fontFamily |-> "Allura"] }

\* request bodies that textFieldSchema would refuse: x below 0, width below 1,
\* a font outside the enum
BadPatchBodies ==
    { [x |-> 0 - Px(10), width |-> Px(0), fontFamily |-> "Comic Sans"] }

DocumentIds == 1..MaxDocuments
\* the id of the document uploaded last (the one the editor adds fields to)
\* and the id that the next upload will get, which is not in the store
KnownOrNext ==
    {d \in DocumentIds : nextId.document - 1 <= d /\ d <= nextId.document}
FieldIds == 1..MaxFields

\* POST /api/documents
ApiUpload(file) ==
    /\ UNCHANGED bodyStyle
    /\ Started < MaxDocuments
    /\ IF Accepted(file) THEN UploadRoute(file) ELSE UNCHANGED serverVars
    /\ exported' = NoExport
    /\ reply' = NoReply
    /\ UNCHANGED <<uploadVars, canvasVars, pageVars, sidebarInputs, compVars,
                   inputVars, netVars>>

\* POST /api/text-fields
ApiCreateField(body) ==
    /\ UNCHANGED bodyStyle
    /\ nextId.textField <= MaxFields
    /\ IF ValidInsert(body)
       THEN /\ textFields' =
                 createTextField(textFields, nextId.textField, ParseInsert(body))
            /\ keys' = Append(keys, nextId.textField)
            /\ nextId' = [nextId EXCEPT !.textField = @ + 1]
            /\ reply' = [status |-> 200,
                         body |-> Get(textFields', keys', nextId.textField)]
       ELSE /\ UNCHANGED <<textFields, keys, nextId>>
            /\ reply' = [status |-> 400, body |-> Null]
    /\ exported' = NoExport
    /\ UNCHANGED <<documents, disk, uploadVars, canvasVars, pageVars,
                   sidebarInputs, compVars, inputVars, netVars>>

\* PATCH /api/text-fields/:id
ApiPatch(id, body) ==
    /\ UNCHANGED bodyStyle
    /\ keys' = keys
    /\ IF HasKey(keys, id)
       THEN /\ textFields' = updateTextField(textFields, keys, id, body)
            /\ reply' = [status |-> 200, body |-> Get(textFields', keys, id)]
       ELSE /\ UNCHANGED textFields
            /\ reply' = [status |-> 404, body |-> Null]
    /\ exported' = NoExport
    /\ UNCHANGED <<documents, disk, nextId, uploadVars, canvasVars, pageVars,
                   sidebarInputs, compVars, inputVars, netVars>>

\* DELETE /api/text-fields/:id
ApiDeleteField(id) ==
    /\ UNCHANGED bodyStyle
    /\ textFields' = deleteTextField(textFields, keys, id)
    /\ keys' = deleteTextField(keys, keys, id)
    /\ reply' = [status |-> 200, body |-> [success |-> TRUE]]
    /\ exported' = NoExport
    /\ UNCHANGED <<documents, disk, nextId, uploadVars, canvasVars, pageVars,
                   sidebarInputs, compVars, inputVars, netVars>>

\* storage.deleteDocument(id): a method of MemStorage that no route calls
DeleteDocument(id) ==
    /\ UNCHANGED bodyStyle
    /\ documents' = deleteDocument(documents, textFields, keys, id).documents
    /\ textFields' = deleteDocument(documents, textFields, keys, id).textFields
    /\ keys' = deleteDocument(documents, textFields, keys, id).keys
    /\ exported' = NoExport
    /\ reply' = NoReply
    /\ UNCHANGED <<disk, nextId, uploadVars, canvasVars, pageVars, sidebarInputs,
                   compVars, inputVars, netVars>>

\* POST /api/documents/:id/export
ApiExport(id) ==
    /\ UNCHANGED bodyStyle
    /\ \E failing \in SUBSET IdsOf(getTextFieldsByDocument(textFields, id)) :
          exported' = ExportResponse(documents, textFields, disk, id, failing)
    /\ reply' = NoReply
    /\ UNCHANGED <<serverVars, uploadVars, canvasVars, pageVars, sidebarInputs,
                   compVars, inputVars, netVars>>

\* ------------------------------------------- the editor's fields: add, delete
\* `Field ${n}`
FieldName(n) == "Field " \o ToString(n)

\* addTextField's newField for a field list of the given length
NewField(documentId, length) ==
    [documentId |-> documentId, name |-> FieldName(length + 1),
     x |-> Px(100), y |-> Px(100), width |-> Px(150), height |-> Px(35),
     required |-> FALSE, font |-> "Arial"]

IsCreate(c) == c.method = "POST"
IsDelete(c) == c.method = "DELETE"
\* a request that undoLastAction sent itself, with the entry it took off the stack
IsUndo(c) == "entry" \in DOMAIN c
\* the ids the server has handed out or will hand out for creates in flight
Issued == nextId.textField - 1 + Cardinality({c \in calls : IsCreate(c) /\ c.status = 0})

\* the fields in the store and those that create calls in flight will add
Expected == Len(textFields) + Cardinality({c \in calls : IsCreate(c) /\ c.status = 0})

\* a number that tells a new create call from those in flight
FreeCall ==
    CHOOSE n \in 1..(Cardinality(calls) + 1) :
       /\ \A c \in calls : IsCreate(c) => c.n # n
       /\ \A k \in 1..(n - 1) : \E c \in calls : IsCreate(c) /\ c.n = k

\* C28 mutant: the guard on the selected document dropped
AddsFieldAlways(document) == TRUE

\* addTextField goes past its early return
AddsField(document) == document.id # 0

\* the Add Text Field button: addTextField -> createFieldMutation.mutate
AddTextField ==
    /\ IF AddsField(selectedDocument)
       THEN /\ Expected < MaxFields
            /\ Issued <= MaxFields
            /\ calls' = calls \cup
                 {[method |-> "POST", n |-> FreeCall, status |-> 0,
                   body |-> NewField(selectedDocument.id, Len(queryData))]}
       ELSE UNCHANGED calls
    /\ UNCHANGED <<serverVars, pageVars, sidebarInputs, compVars, inputVars,
                   requests, responses, nextSeq, needsRefetch>>
    /\ UNCHANGED <<exported, reply, uploadVars, canvasVars>>
    /\ Effects

\* the delete calls issued so far: answered (one undo entry each), or in
\* flight; the actions keep them below the bound on the stored fields
Deleted ==
    Cardinality({i \in DOMAIN undoStack : undoStack[i].type = "delete"})
    + Cardinality({c \in calls : IsDelete(c)})

\* the trash button of a field's list item: deleteField(id) ->
\* deleteFieldMutation.mutate; one DELETE per field in flight at a time
DeleteField(id) ==
    /\ Has(queryData, id)
    /\ Deleted < MaxFields - 1
    /\ ~\E c \in calls : IsDelete(c) /\ c.id = id
    /\ calls' = calls \cup
         {[method |-> "DELETE", id |-> id, status |-> 0,
           fieldData |-> Find(queryData, id)]}
    /\ UNCHANGED <<serverVars, pageVars, sidebarInputs, compVars, inputVars,
                   requests, responses, nextSeq, needsRefetch>>
    /\ UNCHANGED <<exported, reply, uploadVars, canvasVars>>
    /\ Effects

\* POST /api/text-fields for a create call of the page
HandleCreate(c) ==
    /\ UNCHANGED bodyStyle
    /\ c \in calls /\ IsCreate(c) /\ c.status = 0
    /\ IF ValidInsert(c.body)
       THEN /\ textFields' =
                 createTextField(textFields, nextId.textField, ParseInsert(c.body))
            /\ keys' = Append(keys, nextId.textField)
            /\ nextId' = [nextId EXCEPT !.textField = @ + 1]
            /\ calls' = (calls \ {c}) \cup
                 {[c EXCEPT !.status = 200,
                            !.body = Get(textFields', keys', nextId.textField)]}
       ELSE /\ UNCHANGED <<textFields, keys, nextId>>
            /\ calls' = (calls \ {c}) \cup {[c EXCEPT !.status = 400]}
    /\ exported' = NoExport
    /\ reply' = NoReply
    /\ UNCHANGED <<documents, disk, uploadVars, canvasVars, pageVars, sidebarInputs,
                   compVars, inputVars, requests, responses, nextSeq, needsRefetch>>

\* DELETE /api/text-fields/:id for a delete call of the page
HandleDelete(c) ==
    /\ UNCHANGED bodyStyle
    /\ c \in calls /\ IsDelete(c) /\ c.status = 0
    /\ textFields' = deleteTextField(textFields, keys, c.id)
    /\ keys' = deleteTextField(keys, keys, c.id)
    /\ calls' = (calls \ {c}) \cup {[c EXCEPT !.status = 200]}
    /\ exported' = NoExport
    /\ reply' = NoReply
    /\ UNCHANGED <<documents, disk, nextId, uploadVars, canvasVars, pageVars,
                   sidebarInputs, compVars, inputVars, requests, responses, nextSeq,
                   needsRefetch>>

\* createFieldMutation.onSuccess: undo entry, invalidateQueries; onError: a toast
ReceiveCreate(c) ==
    /\ c \in calls /\ IsCreate(c) /\ ~IsUndo(c) /\ c.status # 0
    /\ calls' = calls \ {c}
    /\ IF c.status = 200
       THEN /\ undoStack' = Append(undoStack, [type |-> "create", fieldId |-> c.body.id])
            /\ needsRefetch' = TRUE
       ELSE UNCHANGED <<undoStack, needsRefetch>>
    /\ UNCHANGED <<serverVars, selectedDocument, selectedField, zoomLevel, queryData,
                   sidebarInputs, compVars, inputVars, requests, responses, nextSeq>>
    /\ UNCHANGED <<exported, reply, uploadVars, canvasVars>>
    /\ Effects

\* deleteFieldMutation.onSuccess: undo entry, invalidateQueries,
\* setSelectedField(null)
ReceiveDelete(c) ==
    /\ c \in calls /\ IsDelete(c) /\ ~IsUndo(c) /\ c.status # 0
    /\ calls' = calls \ {c}
    /\ undoStack' = Append(undoStack, [type |-> "delete", fieldId |-> c.id,
                                       previousData |-> c.fieldData])
    /\ needsRefetch' = TRUE
    /\ Select(Null)
    /\ UNCHANGED <<serverVars, selectedDocument, zoomLevel, queryData, compVars,
                   inputVars, requests, responses, nextSeq>>
    /\ UNCHANGED <<exported, reply, uploadVars, canvasVars>>
    /\ Effects

\* ------------------------------------------------------- undo and restart
\* the request undoLastAction sends for the entry it took off the stack
UndoCall(lastAction) ==
    IF lastAction.type = "create"
    THEN [method |-> "DELETE", id |-> lastAction.fieldId, status |-> 0,
          entry |-> lastAction]
    ELSE IF lastAction.type = "delete"
    THEN [method |-> "POST", n |-> FreeCall, status |-> 0,
          body |-> lastAction.previousData, entry |-> lastAction]
    ELSE [method |-> "PATCH", id |-> lastAction.fieldId, status |-> 0,
          body |-> [k \in {"x", "y", "width", "height", "name"} |->
                      lastAction.previousData[k]],
          entry |-> lastAction]

\* the Undo button: undoLastAction up to its await
UndoLastAction ==
    /\ Len(undoStack) > 0
    /\ LET lastAction == undoStack[Len(undoStack)]
       IN  /\ lastAction.type = "delete" => Issued <= MaxFields
           /\ undoStack' = SubSeq(undoStack, 1, Len(undoStack) - 1)
           /\ calls' = calls \cup {UndoCall(lastAction)}
    /\ UNCHANGED <<serverVars, selectedDocument, selectedField, zoomLevel, queryData,
                   sidebarInputs, compVars, inputVars, requests, responses, nextSeq,
                   needsRefetch>>
    /\ UNCHANGED <<exported, reply, uploadVars, canvasVars>>
    /\ Effects

\* PATCH /api/text-fields/:id for the request of an undo
HandleRevert(c) ==
    /\ UNCHANGED bodyStyle
    /\ c \in calls /\ c.method = "PATCH" /\ c.status = 0
    /\ keys' = keys
    /\ IF HasKey(keys, c.id)
       THEN /\ textFields' = updateTextField(textFields, keys, c.id, c.body)
            /\ calls' = (calls \ {c}) \cup {[c EXCEPT !.status = 200]}
       ELSE /\ UNCHANGED textFields
            /\ calls' = (calls \ {c}) \cup {[c EXCEPT !.status = 404]}
    /\ exported' = NoExport
    /\ reply' = NoReply
    /\ UNCHANGED <<documents, disk, nextId, uploadVars, canvasVars, pageVars,
                   sidebarInputs, compVars, inputVars, requests, responses, nextSeq,
                   needsRefetch>>

\* undoLastAction after its await: invalidateQueries, or the catch block puts
\* the entry back on the stack (apiRequest rejects on a status outside 2xx)
ReceiveUndo(c) ==
    /\ c \in calls /\ IsUndo(c) /\ c.status # 0
    /\ calls' = calls \ {c}
    /\ IF c.status = 200
       THEN needsRefetch' = TRUE /\ UNCHANGED undoStack
       ELSE undoStack' = Append(undoStack, c.entry) /\ UNCHANGED needsRefetch
    /\ UNCHANGED <<serverVars, selectedDocument, selectedField, zoomLevel, queryData,
                   sidebarInputs, compVars, inputVars, requests, responses, nextSeq>>
    /\ UNCHANGED <<exported, reply, uploadVars, canvasVars>>
    /\ Effects

\* the Restart button: restartForm up to its await, one DELETE per listed
\* field; one restart in flight at a time
RestartForm ==
    /\ selectedDocument.id # 0
    /\ Len(queryData) > 0
    /\ ~\E c \in calls : c.method = "RESTART"
    /\ calls' = calls \cup
         {[method |-> "RESTART", ids |-> MountedIds(queryData), status |-> 0]}
    /\ UNCHANGED <<serverVars, pageVars, sidebarInputs, compVars, inputVars,
                   requests, responses, nextSeq, needsRefetch>>
    /\ UNCHANGED <<exported, reply, uploadVars, canvasVars>>
    /\ Effects

\* DELETE /api/text-fields/:id for one of the requests of a restart
HandleRestart(c, id) ==
    /\ UNCHANGED bodyStyle
    /\ c \in calls /\ c.method = "RESTART" /\ c.status = 0
    /\ id \in c.ids
    /\ textFields' = deleteTextField(textFields, keys, id)
    /\ keys' = deleteTextField(keys, keys, id)
    /\ calls' = (calls \ {c}) \cup
         {[c EXCEPT !.ids = @ \ {id},
                    !.status = IF c.ids = {id} THEN 200 ELSE 0]}
    /\ exported' = NoExport
    /\ reply' = NoReply
    /\ UNCHANGED <<documents, disk, nextId, uploadVars, canvasVars, pageVars,
                   sidebarInputs, compVars, inputVars, requests, responses, nextSeq,
                   needsRefetch>>

\* restartForm after Promise.all: the undo stack and the selection cleared,
\* invalidateQueries
ReceiveRestart(c) ==
    /\ c \in calls /\ c.method = "RESTART" /\ c.status = 200
    /\ calls' = calls \ {c}
    /\ undoStack' = <<>>
    /\ Select(Null)
    /\ needsRefetch' = TRUE
    /\ UNCHANGED <<serverVars, selectedDocument, zoomLevel, queryData, compVars,
                   inputVars, requests, responses, nextSeq>>
    /\ UNCHANGED <<exported, reply, uploadVars, canvasVars>>
    /\ Effects

\* ------------------------------------------------------------------- states
\* addTextField's record as MemStorage.createTextField stores it
DefaultField(id, documentId, n) ==
    [id |-> id, documentId |-> documentId,
     name |-> IF n = 1 THEN "Field 1" ELSE IF n = 2 THEN "Field 2" ELSE "Field 3",
     x |-> Px(100), y |-> Px(100), width |-> Px(150), height |-> Px(35),
     required |-> FALSE, fontFamily |-> "undefined"]

PdfDocument(id) == Merge(DocumentData(LetterPdf, 1), [id |-> id])

\* the page as it opens, the server just started
InitPage ==
    /\ documents = <<>>
    /\ textFields = <<>>
    /\ keys = <<>>
    /\ disk = <<>>
    /\ nextId = [document |-> 1, textField |-> 1]
    /\ exported = NoExport
    /\ reply = NoReply
    /\ bodyStyle = DefaultStyle
    /\ uploads = {}
    /\ uploadResponses = {}
    /\ pdfImageUrl = 0
    /\ isLoadingPdf = FALSE
    /\ rasterizations = {}
    /\ selectedDocument = Null
    /\ selectedField = Null
    /\ zoomLevel = ZoomDefault
    /\ undoStack = <<>>
    /\ queryData = <<>>
    /\ sidebarInputs = SidebarOf(Null)
    /\ isDragging = <<>>
    /\ isResizing = <<>>
    /\ resizeDirection = <<>>
    /\ dragStart = <<>>
    /\ initialPosition = <<>>
    /\ initialSize = <<>>
    /\ currentPosition = <<>>
    /\ currentSize = <<>>
    /\ mouse = [down |-> FALSE, target |-> Target("none", 0)]
    /\ touches = 0
    /\ requests = {}
    /\ responses = {}
    /\ nextSeq = 0
    /\ needsRefetch = FALSE
    /\ calls = {}

\* the editor after one PDF upload and n add-field actions, the page rasterized
\* and the field list refreshed
InitEditor(n) ==
    /\ documents = <<PdfDocument(1)>>
    /\ textFields = [i \in 1..n |-> DefaultField(i, 1, i)]
    /\ keys = [i \in 1..n |-> i]
    /\ disk = <<LetterPdf>>
    /\ nextId = [document |-> 2, textField |-> n + 1]
    /\ exported = NoExport
    /\ reply = NoReply
    /\ bodyStyle = DefaultStyle
    /\ uploads = {}
    /\ uploadResponses = {}
    /\ pdfImageUrl = 1
    /\ isLoadingPdf = FALSE
    /\ rasterizations = {}
    /\ selectedDocument = PdfDocument(1)
    /\ selectedField = Null
    /\ zoomLevel = ZoomDefault
    /\ undoStack = [i \in 1..n |-> [type |-> "create", fieldId |-> i]]
    /\ queryData = textFields
    /\ sidebarInputs = SidebarOf(Null)
    /\ isDragging = [f \in 1..n |-> FALSE]
    /\ isResizing = [f \in 1..n |-> FALSE]
    /\ resizeDirection = [f \in 1..n |-> "null"]
    /\ dragStart = [f \in 1..n |-> NoPoint]
    /\ initialPosition = [f \in 1..n |-> NoPoint]
    /\ initialSize = [f \in 1..n |-> [width |-> 0, height |-> 0]]
    /\ currentPosition = [f \in 1..n |-> PosOf(Find(textFields, f))]
    /\ currentSize = [f \in 1..n |-> SizeOf(Find(textFields, f))]
    /\ mouse = [down |-> FALSE, target |-> Target("none", 0)]
    /\ touches = 0
    /\ requests = {}
    /\ responses = {}
    /\ nextSeq = 0
    /\ needsRefetch = FALSE
    /\ calls = {}

\* ------------------------------------------------------------ specifications
\* presses: mouse and touch, on a field, on a handle, and elsewhere
Starts ==
    \/ \E f \in Mounted, p \in PressPositions : MouseDownField(f, p)
    \/ \E f \in Mounted, d \in ResizeDirections, p \in PressPositions :
         MouseDownHandle(f, d, p)
    \/ \E f \in Mounted, p \in PressPositions : TouchStartField(f, p)
    \/ \E f \in Mounted, d \in ResizeDirections, p \in PressPositions :
         TouchStartHandle(f, d, p)
    \/ MouseDownElsewhere("canvas", 0)
    \/ \E f \in Mounted : MouseDownElsewhere("sidebarItem", f)

Moves(M) ==
    \/ \E p \in M : MouseMove(p)
    \/ \E p \in M : TouchMove(p)

Ends ==
    \/ \E r \in {"same", "canvas", "none"} : MouseUp(r)
    \/ TouchEnd

\* a gesture driven by the mouse alone
MouseGesture(M) ==
    \/ \E f \in Mounted, p \in PressPositions : MouseDownField(f, p)
    \/ \E f \in Mounted, d \in ResizeDirections, p \in PressPositions :
         MouseDownHandle(f, d, p)
    \/ \E p \in M : MouseMove(p)
    \/ \E r \in {"same", "canvas", "none"} : MouseUp(r)

\* a gesture on the mouse-only component
MouseOnly ==
    \/ \E f \in Mounted, p \in PressPositions : MouseOnlyDown(f, p)
    \/ \E f \in Mounted, p \in MovePositions : MouseOnlyMove(f, p)
    \/ \E r \in {"same", "canvas", "none"} : MouseOnlyUp(r)

Zoom == ZoomIn \/ ZoomOut \/ FitToScreen

Sidebar == \E property \in {"width", "height"}, v \in TypedValues : SidebarEdit(property, v)

Network ==
    \/ \E req \in requests : HandlePatch(req)
    \/ \E resp \in responses : ReceiveResponse(resp)
    \/ Refetch

\* two fields under the mouse: presses on fields, handles, the canvas and the
\* sidebar list, moves, releases
SpecSelect ==
    InitEditor(2) /\ [][\/ MouseGesture(SessionMoves)
                        \/ MouseDownElsewhere("canvas", 0)
                        \/ \E f \in Mounted : MouseDownElsewhere("sidebarItem", f)]_vars

\* one field under the mouse and touches: presses, moves and releases
SpecModes == InitEditor(1) /\ [][Starts \/ Moves(SessionMoves) \/ Ends]_vars

\* gestures in progress on one field: every press and move, at every zoom level
SpecGeometry == InitEditor(1) /\ [][Starts \/ Moves(MovePositions) \/ Zoom]_vars

\* two fields under every press, move and release
SpecSession == InitEditor(2) /\ [][Starts \/ Moves(SessionMoves) \/ Ends]_vars

\* two fields: mouse gestures and the server's handling of their commits
SpecFrame ==
    InitEditor(2) /\ [][\/ MouseGesture(SessionMoves)
                        \/ \E req \in requests : HandlePatch(req)]_vars

\* one field: mouse gestures, sidebar edits and the commits' way through the server
SpecCommit == InitEditor(1) /\ [][MouseGesture(SessionMoves) \/ Sidebar \/ Network]_vars

\* the ids of the fields the server has created
FieldIdsIssued == 1..(nextId.textField - 1)

\* the field list of the editor: add and delete, and the calls' way through
\* the server
Fields ==
    \/ AddTextField
    \/ \E id \in Mounted : DeleteField(id)
    \/ \E c \in calls : HandleCreate(c)
    \/ \E c \in calls : HandleDelete(c)
    \/ \E c \in calls : ReceiveCreate(c)
    \/ \E c \in calls : ReceiveDelete(c)
    \/ Refetch

Upload ==
    \/ \E file \in Files : UploadFile(file)
    \/ \E u \in uploads : HandleUpload(u)
    \/ \E document \in uploadResponses : ReceiveUpload(document)

Raster ==
    \/ \E d \in rasterizations : RasterResolve(d)
    \/ \E d \in rasterizations : RasterReject(d)

Api(F) ==
    \/ \E file \in F : ApiUpload(file)
    \/ \E d \in KnownOrNext : \E body \in CreateBodies(d) : ApiCreateField(body)
    \/ \E id \in FieldIds, body \in PatchBodies : ApiPatch(id, body)
    \/ \E id \in DocumentIds : ApiExport(id)

\* every operation that changes MemStorage: the routes and deleteDocument
Store ==
    \/ ApiUpload(LetterPdf)
    \/ \E d \in KnownOrNext : \E body \in CreateBodies(d) : ApiCreateField(body)
    \/ \E id \in FieldIds, body \in BadPatchBodies : ApiPatch(id, body)
    \/ \E id \in FieldIds : ApiDeleteField(id)
    \/ \E id \in DocumentIds : DeleteDocument(id)

\* two fields rendered by the continuous-commit component, moved with the mouse
SpecContinuous ==
    InitEditor(2) /\ [][\/ \E f \in Mounted, p \in PressPositions : ContinuousDown(f, p)
                        \/ \E f \in Mounted, p \in MovePositions : MouseOnlyMove(f, p)
                        \/ \E r \in {"same", "canvas", "none"} : MouseOnlyUp(r)
                        \/ Network]_vars

\* two fields rendered by the mouse-only component, moved with the mouse
SpecMouseOnly == InitEditor(2) /\ [][MouseOnly \/ Network]_vars

\* the page from its opening: uploads, the canvas and its page loads
SpecCanvas == InitPage /\ [][Upload \/ Raster \/ Refetch]_vars

\* the page from its opening: PDFs uploaded and fields added
SpecAdd ==
    InitPage /\ [][\/ UploadFile(LetterPdf)
                   \/ \E u \in uploads : HandleUpload(u)
                   \/ \E document \in uploadResponses : ReceiveUpload(document)
                   \/ AddTextField
                   \/ \E c \in calls : HandleCreate(c)
                   \/ \E c \in calls : ReceiveCreate(c)
                   \/ Refetch]_vars

\* undo and restart, and their requests' way through the server
Undo ==
    \/ UndoLastAction
    \/ \E c \in calls : HandleRevert(c)
    \/ \E c \in calls : ReceiveUndo(c)

Restart ==
    \/ RestartForm
    \/ \E c \in calls : \E id \in FieldIdsIssued : HandleRestart(c, id)
    \/ \E c \in calls : ReceiveRestart(c)

\* a click on a field's entry in the sidebar list
SelectInList ==
    \/ \E f \in Mounted : MouseDownElsewhere("sidebarItem", f)
    \/ MouseUp("same")

\* one field: mouse gestures, their commits' way through the server, undo
SpecRevert ==
    InitEditor(1) /\ [][\/ MouseGesture(SessionMoves)
                        \/ Network
                        \/ Undo
                        \/ \E c \in calls : HandleDelete(c)]_vars

\* the user acts again only when the request of the last action was answered
OneAtATime == Cardinality(calls') <= 1

\* the editor with a PDF and no field yet: fields selected in the list, added,
\* deleted, the actions undone, the form restarted, one request at a time
\* add, delete and undo, one request at a time
PatientEdits ==
    \/ AddTextField /\ OneAtATime
    \/ \E id \in Mounted : DeleteField(id) /\ OneAtATime
    \/ UndoLastAction /\ OneAtATime
    \/ \E c \in calls : HandleCreate(c)
    \/ \E c \in calls : HandleDelete(c)
    \/ \E c \in calls : ReceiveCreate(c)
    \/ \E c \in calls : ReceiveDelete(c)
    \/ \E c \in calls : ReceiveUndo(c)
    \/ Refetch

\* restart, one request at a time
PatientRestart ==
    \/ RestartForm /\ OneAtATime
    \/ \E c \in calls : \E id \in FieldIdsIssued : HandleRestart(c, id)
    \/ \E c \in calls : ReceiveRestart(c)

SpecUndo == InitEditor(0) /\ [][PatientEdits \/ PatientRestart \/ SelectInList]_vars

\* the editor with a PDF and no field yet: fields added and deleted and the
\* actions undone, one request at a time
SpecEdits == InitEditor(0) /\ [][PatientEdits]_vars

\* the editor with a PDF and no field yet: fields added and deleted
SpecFields == InitEditor(0) /\ [][Fields]_vars

\* the server under direct calls of its routes, a PDF and an image uploaded
SpecExport == InitPage /\ [][Api({LetterPdf, PngImage, HugePdf})]_vars

\* the server under direct calls of its routes, a PDF of another page size
\* and a PDF that does not load uploaded
SpecDamaged == InitPage /\ [][Api({A4Pdf, DamagedPdf, TextFile})]_vars

\* the store under every operation of MemStorage that changes it
SpecStore == InitPage /\ [][Store]_vars

\* request bodies of PATCH /api/text-fields/:id that name the record's own
\* columns id and documentId (req.body goes to the store as it is), and one
\* that does not
IdentityBodies ==
    { [name |-> "Renamed"], [id |-> 2, x |-> Px(0)], [documentId |-> 2] }

\* direct API calls: an upload, creates, updates with IdentityBodies, deletes
SpecIdentity ==
    InitPage /\ [][\/ ApiUpload(LetterPdf)
                   \/ \E d \in KnownOrNext : \E body \in CreateBodies(d) :
                         ApiCreateField(body)
                   \/ \E id \in FieldIds, body \in IdentityBodies : ApiPatch(id, body)
                   \/ \E id \in FieldIds : ApiDeleteField(id)]_vars

Init == InitPage
Next == Upload \/ Raster \/ Api(Files) \/ Store \/ Starts \/ Moves(MovePositions) \/ Ends \/ Zoom
        \/ Sidebar \/ Network \/ Fields \/ Undo \/ Restart
Spec == Init /\ [][Next]_vars

\* ------------------------------------------------------------------ claims
\* a move event that a dragging / resizing component acts on
SingleMove(p) == MouseMove(p) \/ (touches = 1 /\ TouchMove(p))

\* C1: a mouse move or single-touch move puts the candidate position of a
\* dragging field at (max(0, x0 + dx/s), max(0, y0 + dy/s)), s = zoom/100, for
\* the gesture-start position (x0, y0) and pointer displacement (dx, dy); with
\* no upper bound; (100,100) dragged by (50,50) at 50% gives (200,200).
\* Stated with both sides multiplied by the zoom level.
C1_DragGeometry ==
    [][\A p \in MovePositions : SingleMove(p) =>
         \A f \in Mounted : isDragging[f] =>
            /\ currentPosition'[f].x * zoomLevel =
                 Max(0, initialPosition[f].x * zoomLevel
                        + (p.x - dragStart[f].x) * 100 * Unit)
            /\ currentPosition'[f].y * zoomLevel =
                 Max(0, initialPosition[f].y * zoomLevel
                        + (p.y - dragStart[f].y) * 100 * Unit)
            /\ (/\ zoomLevel = 50
                /\ initialPosition[f] = [x |-> Px(100), y |-> Px(100)]
                /\ p.x - dragStart[f].x = 50
                /\ p.y - dragStart[f].y = 50)
               => currentPosition'[f] = [x |-> Px(200), y |-> Px(200)]]_vars

\* C1 witness: the field dragged from (100,100) by (50,50) at 50% zoom
C1_Witness ==
    \E f \in Mounted :
        /\ isDragging[f]
        /\ zoomLevel = 50
        /\ initialPosition[f] = [x |-> Px(100), y |-> Px(100)]
        /\ currentPosition[f] = [x |-> Px(200), y |-> Px(200)]

\* C3: a resize move with direction e leaves the height at the gesture-start
\* height, with direction s leaves the width at the gesture-start width, and with
\* direction se drives both: each becomes max(floor, start + delta / s).
C3_ResizeFrame ==
    [][\A p \in MovePositions : SingleMove(p) =>
         \A f \in Mounted :
            (~isDragging[f] /\ isResizing[f]) =>
               /\ resizeDirection[f] = "e" =>
                    /\ currentSize'[f].height = initialSize[f].height
                    /\ currentSize'[f].height = currentSize[f].height
               /\ resizeDirection[f] = "s" =>
                    /\ currentSize'[f].width = initialSize[f].width
                    /\ currentSize'[f].width = currentSize[f].width
               /\ resizeDirection[f] = "se" =>
                    /\ currentSize'[f].width * zoomLevel =
                         Max(Px(MinWidth) * zoomLevel,
                             initialSize[f].width * zoomLevel
                             + (p.x - dragStart[f].x) * 100 * Unit)
                    /\ currentSize'[f].height * zoomLevel =
                         Max(Px(MinHeight) * zoomLevel,
                             initialSize[f].height * zoomLevel
                             + (p.y - dragStart[f].y) * 100 * Unit)]_vars

\* C3 witness: an e resize that has changed the width and kept the height
C3_Witness ==
    \E f \in Mounted :
        /\ isResizing[f] /\ ~isDragging[f]
        /\ resizeDirection[f] = "e"
        /\ currentSize[f].width # initialSize[f].width
        /\ currentSize[f].height = initialSize[f].height

\* C2: the size a resize gesture results in has width >= 50 and height >= 20,
\* whatever the direction, the pointer displacement, the zoom level and the size
\* at gesture start: this holds of the candidate after every move and of the
\* size a release commits; 150x35 at 100% resized with se by (-200,-200)
\* gives 50x20.
C2_ResizeFloor ==
    [][/\ \A p \in MovePositions \cup SessionMoves : SingleMove(p) =>
            \A f \in Mounted :
               (~isDragging[f] /\ isResizing[f]) =>
                  /\ currentSize'[f].width >= Px(MinWidth)
                  /\ currentSize'[f].height >= Px(MinHeight)
                  /\ (/\ zoomLevel = 100
                      /\ resizeDirection[f] = "se"
                      /\ initialSize[f] = [width |-> Px(150), height |-> Px(35)]
                      /\ p.x - dragStart[f].x = -200
                      /\ p.y - dragStart[f].y = -200)
                     => currentSize'[f] = [width |-> Px(MinWidth),
                                           height |-> Px(MinHeight)]
       /\ ((\E r \in {"same", "canvas", "none"} : MouseUp(r)) \/ TouchEnd) =>
            \A f \in Mounted :
               (~isDragging[f] /\ isResizing[f]) =>
                  \A q \in requests' \ requests :
                     q.id = f => /\ q.updates.width >= Px(MinWidth)
                                 /\ q.updates.height >= Px(MinHeight)]_vars

\* C8: once every issued geometry commit has been handled by the server, each
\* property of a field holds the value of the commit issued last among those
\* that carry it.
C8_LastIssuedWins ==
    (requests = {} /\ Cardinality(responses) = nextSeq) =>
        \A r \in responses :
            r.status = 200 =>
               \A k \in DOMAIN r.updates :
                  (\A q \in responses :
                      (q.status = 200 /\ q.body.id = r.body.id
                       /\ k \in DOMAIN q.updates) => q.seq <= r.seq)
                  => Find(textFields, r.body.id)[k] = r.updates[k]

\* C10: every stored field has x >= 0, y >= 0, width >= 50 and height >= 20.
C10_PersistedBounds ==
    \A i \in DOMAIN textFields :
        /\ textFields[i].x >= 0
        /\ textFields[i].y >= 0
        /\ textFields[i].width >= Px(MinWidth)
        /\ textFields[i].height >= Px(MinHeight)

\* C6: at most one field is dragging or resizing at any instant, and a step
\* that selects a different field while a gesture is active on some field
\* finalizes that gesture: it issues the gesture's commit and leaves the field
\* neither dragging nor resizing.
C6_SingleActiveGesture ==
    [][/\ Cardinality({f \in Mounted : isDragging'[f] \/ isResizing'[f]}) <= 1
       /\ (selectedField'.id # selectedField.id /\ selectedField'.id # 0) =>
             \A g \in Mounted :
                (Active(g) /\ g # selectedField'.id) =>
                   /\ ~isDragging'[g] /\ ~isResizing'[g]
                   /\ \E q \in requests' \ requests : q.id = g]_vars

\* C7: a pointer-up or touch-end that ends a drag or a resize of a field issues
\* a commit for that field carrying the last candidate position (drag) or size
\* (resize), and leaves the field selected, neither dragging nor resizing.
C7_ReleaseCommits ==
    [][((\E r \in {"same", "canvas", "none"} : MouseUp(r)) \/ TouchEnd) =>
         \A f \in Mounted :
            /\ isDragging[f] =>
                 \E q \in requests' \ requests :
                    q.id = f /\ q.updates = currentPosition[f]
            /\ isResizing[f] =>
                 \E q \in requests' \ requests :
                    q.id = f /\ q.updates = currentSize[f]
            /\ Active(f) =>
                 /\ selectedField'.id = f
                 /\ ~isDragging'[f] /\ ~isResizing'[f]]_vars

\* C4: a successful export places, for every field (x, y, w, h) of the document
\* in stored order, a form field at (x, H - y - h, w, h), H the height of the
\* exported page; on a page of height 792 the default field (100,100,150,35)
\* is placed at (100, 657, 150, 35).
C4_ExportMapping ==
    [][\A id \in DocumentIds :
         (ApiExport(id) /\ exported'.status = 200) =>
            LET ofDocument == getTextFieldsByDocument(textFields, id)
                H == exported'.pageHeight
                placed == exported'.placements
            IN  /\ Len(placed) = Len(ofDocument)
                /\ \A i \in DOMAIN ofDocument :
                      /\ placed[i].x = ofDocument[i].x
                      /\ placed[i].y = H - ofDocument[i].y - ofDocument[i].height
                      /\ placed[i].width = ofDocument[i].width
                      /\ placed[i].height = ofDocument[i].height
                      /\ (/\ H = Px(792)
                          /\ ofDocument[i].x = Px(100) /\ ofDocument[i].y = Px(100)
                          /\ ofDocument[i].width = Px(150)
                          /\ ofDocument[i].height = Px(35))
                         => /\ placed[i].x = Px(100) /\ placed[i].y = Px(657)
                            /\ placed[i].width = Px(150)
                            /\ placed[i].height = Px(35)]_vars

\* C4 witness: an export of a 792-high page that placed the default field
C4_Witness ==
    /\ exported.status = 200
    /\ exported.pageHeight = Px(792)
    /\ \E i \in DOMAIN exported.placements :
          /\ exported.placements[i].x = Px(100)
          /\ exported.placements[i].y = Px(657)
          /\ exported.placements[i].width = Px(150)
          /\ exported.placements[i].height = Px(35)

C9_StaleRasterDiscarded ==
    [][\A d \in DocumentIds :
         ((RasterResolve(d) \/ RasterReject(d)) /\ d # selectedDocument.id) =>
            /\ pdfImageUrl' = pdfImageUrl
            /\ isLoadingPdf' = isLoadingPdf]_vars

\* C11: every stored text field's documentId is the id of a document that is
\* in the store, whatever creates, updates and deletes came before.
C11_ReferentialIntegrity ==
    \A i \in DOMAIN textFields : Has(documents, textFields[i].documentId)

\* C12: after deleteDocument(d) the document d is not found, d has no text
\* fields left, and the field list of every other document id is what it was;
\* the other documents stay as they were.
C12_CascadeDelete ==
    [][\A d \in DocumentIds :
         DeleteDocument(d) =>
            /\ ~Has(documents', d)
            /\ getTextFieldsByDocument(textFields', d) = <<>>
            /\ \A e \in DocumentIds \ {d} :
                  /\ getTextFieldsByDocument(textFields', e) =
                        getTextFieldsByDocument(textFields, e)
                  /\ Has(documents', e) = Has(documents, e)
                  /\ Has(documents, e) => Find(documents', e) = Find(documents, e)]_vars

\* document 1 and its field are gone, document 2 and its field are left
C12_Witness ==
    /\ nextId = [document |-> 3, textField |-> 3]
    /\ Len(documents) = 1 /\ documents[1].id = 2
    /\ Len(textFields) = 1 /\ textFields[1].documentId = 2
    /\ reply = NoReply
    /\ exported = NoExport

\* the list in creation order: ids are handed out in the order of creation
InCreationOrder(list) ==
    \A i, k \in DOMAIN list : i < k => list[i].id < list[k].id

\* C13: getTextFieldsByDocument(d) holds exactly the stored fields of d, in
\* creation order; an update of a field changes no document's order of ids;
\* a successful export places one form field per list entry, in list order.
C13_CreationOrder ==
    [][/\ \A d \in DocumentIds :
            LET list == getTextFieldsByDocument(textFields', d)
            IN  /\ InCreationOrder(list)
                /\ IdsOf(list) =
                     {textFields'[i].id : i \in {k \in DOMAIN textFields' :
                                                    textFields'[k].documentId = d}}
                /\ Len(list) = Cardinality(IdsOf(list))
       /\ \A id \in FieldIds, body \in PatchBodies :
            ApiPatch(id, body) =>
               \A d \in DocumentIds :
                  LET before == getTextFieldsByDocument(textFields, d)
                      after == getTextFieldsByDocument(textFields', d)
                  IN  /\ Len(after) = Len(before)
                      /\ \A i \in DOMAIN before : after[i].id = before[i].id
       /\ \A d \in DocumentIds :
            (ApiExport(d) /\ exported'.status = 200) =>
               LET list == getTextFieldsByDocument(textFields, d)
                   placed == exported'.placements
               IN  /\ Len(placed) = Len(list)
                   /\ \A i \in DOMAIN list :
                         /\ placed[i].name = list[i].name
                         /\ placed[i].x = list[i].x
                         /\ placed[i].width = list[i].width
                         /\ placed[i].height = list[i].height]_vars

\* two fields of one document exported, the elder one updated before
C13_Witness ==
    /\ exported.status = 200
    /\ Len(exported.placements) = 2
    /\ textFields[1].fontFamily = "Allura"
    /\ exported.placements[1].x = Px(0)
    /\ exported.placements[2].x # Px(0)

\* C14: a field created from a body without required and without fontFamily
\* is stored, and returned, with fontFamily "Arial" and required false.
C14_CreateDefaults ==
    [][\A d \in DocumentIds : \A body \in CreateBodies(d) :
         (/\ ApiCreateField(body)
          /\ "required" \notin DOMAIN body
          /\ "fontFamily" \notin DOMAIN body) =>
            \A made \in {reply'.body, Find(textFields', nextId.textField)} :
               /\ made.fontFamily = "Arial"
               /\ made.required # "null"
               /\ made.required = FALSE]_vars

\* C15: a PATCH for an id that no stored field has is answered 404 and
\* leaves the documents, the fields, the disk and the id counters unchanged.
C15_UpdateUnknown ==
    [][\A id \in FieldIds, body \in PatchBodies \cup BadPatchBodies :
         (ApiPatch(id, body) /\ \A i \in DOMAIN textFields : textFields[i].id # id) =>
            /\ reply'.status = 404
            /\ UNCHANGED serverVars]_vars

\* a PATCH was answered 404 with one field stored and one deleted before
C15_Witness ==
    /\ reply.status = 404
    /\ Len(textFields) = 1
    /\ nextId.textField = 3

\* the geometry and the font that textFieldSchema accepts
ValidUpdate(body) ==
    /\ "x" \in DOMAIN body => body.x >= 0
    /\ "y" \in DOMAIN body => body.y >= 0
    /\ "width" \in DOMAIN body => body.width >= Px(1)
    /\ "height" \in DOMAIN body => body.height >= Px(1)
    /\ "fontFamily" \in DOMAIN body =>
          body.fontFamily \in {"Arial", "Allura", "Dancing Script"}

\* C16: a PATCH of a stored field whose body has a negative x or y, a width
\* or height below the minimum, or a font outside the enum is answered with
\* an error status and the stored field keeps its prior value.
C16_UpdateValidated ==
    [][\A id \in FieldIds, body \in PatchBodies \cup BadPatchBodies :
         (ApiPatch(id, body) /\ Has(textFields, id) /\ ~ValidUpdate(body)) =>
            /\ reply'.status >= 400
            /\ Find(textFields', id) = Find(textFields, id)]_vars

\* C17: when the export of a document succeeds with every font embedded, it
\* also succeeds when the font embedding throws for any of the fields: the
\* PDF is returned and every field is placed where it would have been, the
\* fields whose embedding threw without a font set.
C17_FontFailureIsolated ==
    [][\A d \in DocumentIds :
         LET unfailing == ExportResponse(documents, textFields, disk, d, {})
         IN  (ApiExport(d) /\ unfailing.status = 200) =>
                /\ exported'.status = 200
                /\ exported'.contentType = "application/pdf"
                /\ DOMAIN exported'.placements = DOMAIN unfailing.placements
                /\ \A i \in DOMAIN unfailing.placements :
                      /\ exported'.placements[i].font \in {"Helvetica", "none"}
                      /\ [exported'.placements[i] EXCEPT !.font = "Helvetica"] =
                            unfailing.placements[i]]_vars

\* an export of two fields: the font of one embedded, that of the other not
C17_Witness ==
    /\ exported.status = 200
    /\ Len(exported.placements) = 2
    /\ exported.placements[1].font = "none"
    /\ exported.placements[2].font = "Helvetica"

\* C18: an export of an id that no stored document has is answered 404, an
\* export of a document whose file cannot be loaded is answered 500; both
\* responses are JSON without a PDF and without a form field, and the
\* documents, the fields, the disk and the id counters are unchanged.
C18_ExportAllOrNothing ==
    [][\A d \in DocumentIds :
         ApiExport(d) =>
            LET unknown == \A i \in DOMAIN documents : documents[i].id # d
                damaged == /\ ~unknown
                           /\ disk[Find(documents, d).filename].corrupt
            IN  /\ unknown => exported'.status = 404
                /\ damaged => exported'.status = 500
                /\ (unknown \/ damaged) =>
                      /\ exported'.contentType # "application/pdf"
                      /\ exported'.placements = <<>>
                      /\ UNCHANGED serverVars]_vars

\* the export of a stored document with a field failed on its damaged file
C18_Witness ==
    /\ exported.status = 500
    /\ \E i \in DOMAIN documents :
          /\ documents[i].id = exported.document
          /\ disk[documents[i].filename].corrupt
    /\ getTextFieldsByDocument(textFields, exported.document) # <<>>

\* C19: in a successful export the form field of a stored field whose
\* fontFamily is Arial, Allura or Dancing Script is bound to that font; it
\* has another font only when the embedding threw for it.
C19_ExportFontBinding ==
    [][\A d \in DocumentIds :
         (ApiExport(d) /\ exported'.status = 200) =>
            LET list == getTextFieldsByDocument(textFields, d)
            IN  \A i \in DOMAIN list :
                   list[i].fontFamily \in {"Arial", "Allura", "Dancing Script"} =>
                      exported'.placements[i].font \in {list[i].fontFamily, "none"}]_vars

\* C20: a mouse press on the body of a field that is not selected selects
\* the field and starts no drag; a press on the body of the selected field
\* starts the drag with the pointer position and the field's position as
\* the gesture start.
C20_SelectThenDrag ==
    [][\A f \in Mounted, p \in PressPositions :
         MouseOnlyDown(f, p) =>
            IF ~IsSelected(f)
            THEN /\ selectedField'.id = f
                 /\ UNCHANGED compVars
            ELSE /\ isDragging'[f]
                 /\ dragStart'[f] = p
                 /\ initialPosition'[f] = PosOf(Find(queryData, f))]_vars

\* C21: a field that was not resizing is resizing after a step only if it was
\* the selected field and the step was a press on one of its handles se, e,
\* s; the direction is that handle's, and the gesture start is the pointer
\* position and the field's live width and height at the press.
C21_EntersResizing ==
    [][\A f \in Mounted :
         (~isResizing[f] /\ isResizing'[f]) =>
            /\ IsSelected(f)
            /\ resizeDirection'[f] \in {"se", "e", "s"}
            /\ \E dir \in ResizeDirections, p \in PressPositions :
                  /\ MouseDownHandle(f, dir, p) \/ TouchStartHandle(f, dir, p)
                  /\ resizeDirection'[f] = dir
                  /\ dragStart'[f] = p
                  /\ initialSize'[f] = currentSize[f]]_vars

\* the field resizing from its east handle, the gesture started by one touch
C21_Witness ==
    /\ isResizing[1]
    /\ resizeDirection[1] = "e"
    /\ dragStart[1] = [x |-> 200, y |-> 200]
    /\ initialSize[1] = [width |-> Px(150), height |-> Px(35)]
    /\ touches = 1
    /\ ~mouse.down

\* C22: a touch-move with more than one touch point on the screen changes no
\* field's live position or live size; a touch-start that brings the touch
\* points to more than one, on a field's body or on a handle, sets neither
\* isDragging nor isResizing and leaves every gesture start as it was.
C22_MultiTouchIgnored ==
    [][/\ \A p \in SessionMoves :
            (TouchMove(p) /\ touches > 1) => UNCHANGED <<currentPosition, currentSize>>
       /\ \A f \in Mounted, p \in PressPositions :
            ((\/ TouchStartField(f, p)
              \/ \E dir \in ResizeDirections : TouchStartHandle(f, dir, p))
             /\ touches >= 1) =>
               UNCHANGED compVars]_vars

\* two touch points on the screen while the field is dragged away from its
\* gesture start
C22_Witness ==
    /\ touches = 2
    /\ isDragging[1]
    /\ currentPosition[1] # initialPosition[1]
    /\ ~mouse.down

\* C23: at most one field is the selected one; the click that follows a
\* release and is dispatched to the canvas background leaves no field
\* selected; a click dispatched to a field or to a handle leaves the
\* selection as it was.
C23_Selection ==
    [][/\ Cardinality({f \in Mounted : selectedField'.id = f}) <= 1
       /\ \A r \in {"same", "canvas", "none"} :
            MouseUp(r) =>
               /\ ClickTarget(r).kind = "canvas" => selectedField'.id = 0
               /\ ClickTarget(r).kind \in {"field", "handle"} =>
                     selectedField' = selectedField]_vars

\* no field selected after a field was selected, dragged and released
C23_Witness ==
    /\ selectedField.id = 0
    /\ nextSeq = 1
    /\ ~mouse.down

\* the cursors that match the modes a component would be in with these flags
ModeCursors(dragging, resizing, direction) ==
    (IF dragging THEN {"move"} ELSE {})
    \cup (IF resizing /\ direction = "se" THEN {"se-resize"} ELSE {})
    \cup (IF resizing /\ direction = "e" THEN {"e-resize"} ELSE {})
    \cup (IF resizing /\ direction = "s" THEN {"s-resize"} ELSE {})

\* C24: in the state after every step, if some field is dragging or resizing
\* then text selection is suppressed and the cursor is that of an active
\* field's mode, and if none is then both overrides are at their defaults;
\* after a mouse-up or a touch-end no field is dragging or resizing.
C24_GestureSideEffects ==
    [][LET active == {f \in DOMAIN isDragging' : isDragging'[f] \/ isResizing'[f]}
       IN  /\ active # {} =>
                /\ bodyStyle'.userSelect = "none"
                /\ \E f \in active :
                      bodyStyle'.cursor \in
                         ModeCursors(isDragging'[f], isResizing'[f], resizeDirection'[f])
           /\ active = {} => bodyStyle' = DefaultStyle
           /\ (TouchEnd \/ \E r \in {"same", "canvas", "none"} : MouseUp(r)) =>
                 active = {}]_vars

\* C25: a mouse-move or touch-move during a gesture issues no commit and
\* leaves the store as it was; it changes nothing but the live position and
\* the live size of the components.
C25_MovesAreLocal ==
    [][\A p \in MovePositions :
         (\/ MouseMove(p)
          \/ TouchMove(p)
          \/ \E f \in Mounted : MouseOnlyMove(f, p)) =>
            /\ requests' = requests
            /\ nextSeq' = nextSeq
            /\ UNCHANGED <<serverVars, pageVars, isDragging, isResizing,
                           resizeDirection, dragStart, initialPosition,
                           initialSize>>]_vars

\* C26: while the page load of the displayed PDF is pending the preview is
\* loading and has no background image; when that load fails the preview is
\* no longer loading and still has no background image.
C26_PdfPreviewBackground ==
    /\ [](selectedDocument.id \in rasterizations =>
            /\ isLoadingPdf
            /\ getBackgroundStyle(selectedDocument, isLoadingPdf,
                                  pdfImageUrl).backgroundImage = "none")
    /\ [][RasterReject(selectedDocument.id) =>
            /\ ~isLoadingPdf'
            /\ getBackgroundStyle(selectedDocument', isLoadingPdf',
                                  pdfImageUrl').backgroundImage = "none"]_vars

\* C27: a drag commit carries x and y and a resize commit width and height,
\* and the store's update for a commit changes, of the targeted field, only
\* the attributes the commit carries; every other attribute of that field,
\* every other field and every document stay as they were.
C27_CommitFrame ==
    [][/\ \A r \in requests' \ requests :
             /\ isDragging[r.id] => DOMAIN r.updates = {"x", "y"}
             /\ ~isDragging[r.id] => /\ isResizing[r.id]
                                     /\ DOMAIN r.updates = {"width", "height"}
       /\ \A req \in requests : HandlePatch(req) =>
             /\ documents' = documents
             /\ DOMAIN textFields' = DOMAIN textFields
             /\ \A i \in DOMAIN textFields :
                   IF textFields[i].id = req.id
                   THEN /\ DOMAIN textFields'[i] = DOMAIN textFields[i]
                        /\ \A k \in DOMAIN textFields[i] \ DOMAIN req.updates :
                              textFields'[i][k] = textFields[i][k]
                   ELSE textFields'[i] = textFields[i]]_vars

\* a drag commit and a resize commit of field 1 are stored, field 2 is as created
C27_Witness ==
    /\ PosOf(Find(textFields, 1)) # PosOf(DefaultField(1, 1, 1))
    /\ SizeOf(Find(textFields, 1)) # SizeOf(DefaultField(1, 1, 1))
    /\ Find(textFields, 2) = DefaultField(2, 1, 2)

\* C28: with no document selected the add-field action issues no call and
\* stores nothing; with a document selected it issues exactly one create call
\* for that document, and the server stores for it exactly one new field, of
\* that document, with rectangle (100, 100, 150, 35) and required = false.
C28_AddField ==
    [][/\ AddTextField =>
             IF selectedDocument.id = 0
             THEN calls' = calls /\ textFields' = textFields
             ELSE /\ textFields' = textFields
                  /\ \E c \in calls' \ calls :
                        /\ calls' = calls \cup {c}
                        /\ IsCreate(c)
                        /\ c.body.documentId = selectedDocument.id
       /\ \A c \in calls : HandleCreate(c) =>
             /\ Len(textFields') = Len(textFields) + 1
             /\ SubSeq(textFields', 1, Len(textFields)) = textFields
             /\ LET created == textFields'[Len(textFields')]
                IN  /\ created.documentId = c.body.documentId
                    /\ PosOf(created) = [x |-> Px(100), y |-> Px(100)]
                    /\ SizeOf(created) = [width |-> Px(150), height |-> Px(35)]
                    /\ created.required = FALSE]_vars

\* an add-field action's record is stored for the selected document
C28_Witness ==
    /\ selectedDocument.id # 0
    /\ \E i \in DOMAIN textFields :
          /\ textFields[i].documentId = selectedDocument.id
          /\ textFields[i].required = FALSE
          /\ textFields[i].width = Px(150)
    /\ \E c \in calls : IsCreate(c) /\ c.status = 200

\* C29: no field is dragging and resizing at once, and after a mouse-up or a
\* touch-end no component is dragging or resizing and every resize direction
\* is cleared.
C29_ModeExclusive ==
    /\ [](\A f \in Mounted : ~(isDragging[f] /\ isResizing[f]))
    /\ [][(TouchEnd \/ \E r \in {"same", "canvas", "none"} : MouseUp(r)) =>
            \A f \in DOMAIN isDragging' :
               /\ ~isDragging'[f]
               /\ ~isResizing'[f]
               /\ resizeDirection'[f] = "null"]_vars

\* C30: the names of the stored fields of the selected document are pairwise
\* distinct, whatever add-field and delete-field actions came before.
C30_NamesDistinct ==
    NamesDistinct(getTextFieldsByDocument(textFields, selectedDocument.id))

\* C31: the page height of a successful export equals the stored height of
\* the exported document, so every field of the document shown at canvas y
\* is placed at storedHeight - y - height.
C31_ExportUsesStoredHeight ==
    exported.status = 200 =>
       LET document == Find(documents, exported.document)
           ofDocument == getTextFieldsByDocument(textFields, exported.document)
       IN  /\ exported.pageHeight = document.height
           /\ \A i \in DOMAIN exported.placements :
                 exported.placements[i].y =
                    document.height - ofDocument[i].y - ofDocument[i].height

\* the commit of field f's position issued last and still on its way to the server
PendingPosition(f) ==
    {q \in requests :
        /\ q.id = f /\ DOMAIN q.updates = {"x", "y"}
        /\ \A r \in requests : r.id = f => r.seq <= q.seq}

\* C32: a release leaves the live position of a dragged field and the live
\* size of a resized field at the released value, and a drag that starts
\* while the field's position commit is on its way to the server starts from
\* the committed position.
C32_ReleasedValueKept ==
    [][/\ (TouchEnd \/ \E r \in {"same", "canvas", "none"} : MouseUp(r)) =>
             \A f \in Mounted :
                /\ isDragging[f] => currentPosition'[f] = currentPosition[f]
                /\ (isResizing[f] /\ ~isDragging[f]) => currentSize'[f] = currentSize[f]
       /\ \A f \in Mounted :
             (~isDragging[f] /\ isDragging'[f]) =>
                \A q \in PendingPosition(f) : initialPosition'[f] = q.updates]_vars

\* the field list is fresh: no request on its way and no refetch due
Refreshed == calls = {} /\ requests = {} /\ responses = {} /\ ~needsRefetch

\* C33: once the field list is fresh, a selected field is a field of the list.
C33_SelectionExists ==
    (Refreshed /\ selectedField.id # 0) => Has(queryData, selectedField.id)

\* C34: once the field list is fresh, the name, width and height of the
\* selection's copy of the selected field are those of the field's stored
\* record.
C34_SelectionCopyCurrent ==
    (Refreshed /\ selectedField.id # 0 /\ Has(textFields, selectedField.id)) =>
       LET stored == Find(textFields, selectedField.id)
       IN  /\ selectedField.name = stored.name
           /\ selectedField.width = stored.width
           /\ selectedField.height = stored.height

\* the attributes that the undo of an update writes back
Reverted == {"x", "y", "width", "height", "name"}

\* C35: the record that the undo of an update writes back is the stored
\* record as it was immediately before the update was applied: when the server
\* applies an update, the previous data kept for its undo entry agrees with
\* the stored record on x, y, width, height and name, and the undo's request
\* sets the stored record to that previous data.
C35_UndoRestoresPreImage ==
    [][/\ \A req \in requests :
             (HandlePatch(req) /\ Has(textFields, req.id) /\ req.previousData.id # 0) =>
                \A k \in Reverted : req.previousData[k] = Find(textFields, req.id)[k]
       /\ \A c \in calls :
             (HandleRevert(c) /\ Has(textFields, c.id)) =>
                \A k \in Reverted :
                   Find(textFields', c.id)[k] = c.entry.previousData[k]]_vars

\* C36: the request of every undo is answered with success, so the entry
\* taken off the stack is never put back, and when the undo stack is empty
\* and the field list fresh, the document has no fields.
C36_UndoEmptiesDocument ==
    /\ [][\A c \in calls : ReceiveUndo(c) => c.status = 200]_vars
    /\ []((Refreshed /\ undoStack = <<>>) =>
            getTextFieldsByDocument(textFields, selectedDocument.id) = <<>>)

\* C37: the response to a delete for a field other than the selected one
\* leaves the selection unchanged; only the delete of the selected field
\* clears it
C37_DeleteKeepsOtherSelection ==
    [][\A c \in calls :
          (ReceiveDelete(c) /\ c.id # selectedField.id) =>
              selectedField' = selectedField]_vars

\* the zoom levels the toolbar can show
ZoomLevels == {ZoomStep * k : k \in 1..(ZoomMax \div ZoomStep)}

\* C38: starting from 100, after any sequence of zoomIn, zoomOut and
\* fitToScreen the zoom level is one of 25, 50, ..., 200, so the scale
\* zoomLevel / 100 is never zero; zoomIn at 200 and zoomOut at 25 leave the
\* level unchanged
C38_ZoomLevelInRange ==
    /\ [](zoomLevel \in ZoomLevels /\ zoomLevel # 0)
    /\ [][/\ (ZoomIn /\ zoomLevel = ZoomMax) => zoomLevel' = zoomLevel
          /\ (ZoomOut /\ zoomLevel = ZoomMin) => zoomLevel' = zoomLevel
          /\ (ZoomIn \/ ZoomOut \/ FitToScreen) => zoomLevel' \in ZoomLevels]_vars

\* the level was brought down to the smallest one
C38_Witness == zoomLevel = ZoomMin /\ ZoomMin \in ZoomLevels

\* C39: after updateTextField(id, partial), for any payload the PATCH route
\* accepts, the record stored under the key id has record.id = id and the
\* documentId it had before, so every entry's key equals its record's id
C39_IdentityStable ==
    /\ [](\A i \in DOMAIN keys : textFields[i].id = keys[i])
    /\ [][\A id \in FieldIds, body \in IdentityBodies :
             (ApiPatch(id, body) /\ HasKey(keys, id)) =>
                /\ Get(textFields', keys', id).id = id
                /\ Get(textFields', keys', id).documentId =
                      Get(textFields, keys, id).documentId]_vars

====
